---- MODULE Spec2Model ----
(***************************************************************************)
(* Road-network graph engine of the disaster-response map:                 *)
(*   lib/routing.ts        buildGraph, findNearestNode, astar              *)
(*   lib/updateLog.ts      getLatestStatusBySegment                        *)
(*   components/MapContainer.tsx   segment assembly, status reconciliation *)
(*                                 and the routing effect                  *)
(*                                                                         *)
(* Coordinates are whole cells of a square grid laid over a small patch of *)
(* the map; one cell is 25 m.  Distances are metres, rounded up to a whole *)
(* metre (rounding up keeps the triangle inequality of the great-circle    *)
(* distance).  Edge costs and scores are kept in HALF metres so that the   *)
(* 0.5 multiplier of tall-vehicle mode stays an integer.                   *)
(* Node indices are 1-based (index i here is index i-1 of the code); the   *)
(* code's -1 ("no node") is NoNode.                                        *)
(***************************************************************************)
EXTENDS Integers, Sequences, FiniteSets, TLC

VARIABLES
    roadSegments,        \* RoadSegment[]: [id, coordinates, status]
    tallVehicleRouting,  \* vehicle mode flag
    graph,               \* Graph.nodes of the last buildGraph call
    startIdx,            \* astar argument
    goalIdx,             \* astar argument
    ast,                 \* astar's locals: openSet, cameFrom, gScore, fScore, outcome
    pc,                  \* position of the routing pipeline / of the component
    features,            \* roadData.features the component is mounted on
    latestStatusMap,     \* what getLatestStatusBySegment resolved to at assembly
    mounts,              \* number of times the component was mounted
    previousRun,         \* history: ids and coordinates the previous mount assembled
    roadStatusUpdates,   \* state of the real-time hook: the updates last delivered
    locallyUpdatedSegments, \* ref: ids of the segments marked "locally updated"
    timers,              \* pending setTimeout callbacks: <<segment id, ms left>>
    lastEdit,            \* history: the local edits younger than the suppression window
    startPoint,          \* routing start, <<>> for null
    endPoint,            \* routing end, <<>> for null
    routeInfo,           \* <<distance>>, <<>> for null
    routeLayer,          \* coordinates of the drawn route, <<>> for none
    routeReport,         \* what the latest run of the routing effect reported
    table,               \* rows of road_status_updates: [segment_id, status, updated_at]
    localStore,          \* localStorage['road_status_updates'], the parsed array
    clock,               \* the time, in units between two calls
    logPc,               \* the update log call that returned last
    fetched,             \* data of the last get_latest_road_status call, <<>> when it failed
    latestStatuses,      \* what getLatestStatusBySegment returned last: id -> update
    logged,              \* history: the updates logUpdate was called with
    splitLine,           \* splitLineAtIntersections argument: the line
    splitIntersections,  \* splitLineAtIntersections argument: the intersections
    splitSegments,       \* what splitLineAtIntersections returned
    splitDone,           \* splitLineAtIntersections has returned
    isComponentMounted,  \* flag of the real-time hook's effect
    subscription,        \* the channel the effect holds, 0 for null
    liveChannels,        \* channels subscribed and not unsubscribed
    reconnectTimeoutId,  \* the timeout the effect holds, 0 for null
    pendingReconnects,   \* reconnect timeouts set and neither fired nor cleared
    intervalId,          \* the 30 s interval is set
    made,                \* numbers of channels, timeouts and fetches made so far
    inFlight,            \* fetches issued and not answered: [seq, data]
    dbStatus,            \* status the database holds for the segment
    latestIssued,        \* history: answer to the most recently issued fetch, once given
    session,             \* UserProvider: the session, <<>> for null
    profile,             \* UserProvider: the profile, <<>> for null
    isLoggingOut,        \* isLoggingOutRef.current
    initializing,        \* where initializeAuth stands
    lastActivity,        \* time since lastActivityRef.current, in units of 5 minutes
    inactivityTimeoutRef, \* inactivityTimeoutRef.current holds a timeout id
    warnings,            \* times left of the pending warning timeouts
    finals,              \* times left of the pending final (auto-logout) timeouts
    checks,              \* times left to the next session check of the interval
    signOuts,            \* sign-out sequences waiting for supabase.auth.signOut
    profileFetches,      \* fetchProfile calls waiting for user_profiles
    sinceActivity,       \* history: time since the last user activity event
    forcedIdle,          \* history: sinceActivity when the monitor last forced a logout
    authStep             \* history: the handler that ran last

routeVars == <<graph, startIdx, goalIdx, ast>>
asmVars   == <<features, latestStatusMap, mounts, previousRun>>
mapVars   == <<roadStatusUpdates, locallyUpdatedSegments, timers, lastEdit,
               startPoint, endPoint, routeInfo, routeLayer, routeReport>>
componentVars == <<roadSegments, tallVehicleRouting, pc, routeVars, asmVars, mapVars>>
logVars   == <<table, localStore, clock, logPc, fetched, latestStatuses, logged>>
splitVars == <<splitLine, splitIntersections, splitSegments, splitDone>>
hookVars  == <<isComponentMounted, subscription, liveChannels, reconnectTimeoutId,
               pendingReconnects, intervalId, made, inFlight, dbStatus, latestIssued>>
authVars  == <<session, profile, isLoggingOut, initializing, lastActivity, inactivityTimeoutRef,
               warnings, finals, checks, signOuts, profileFetches, sinceActivity,
               forcedIdle, authStep>>
sideVars  == <<logVars, splitVars, hookVars, authVars>>
besideLog   == <<componentVars, splitVars, hookVars, authVars>>
besideSplit == <<componentVars, logVars, hookVars, authVars>>
besideAuth  == <<componentVars, logVars, splitVars, hookVars>>
besideHook  == <<roadSegments, tallVehicleRouting, pc, routeVars, asmVars,
                 locallyUpdatedSegments, timers, lastEdit, startPoint, endPoint,
                 routeInfo, routeLayer, routeReport, logVars, splitVars, authVars>>
vars == <<componentVars, sideVars>>

-----------------------------------------------------------------------------
(* Bounds and program constants *)

\* number of roads of RoadPool offered to the graph builder
NumRoads == 5

\* Infinity of the g- and f-scores
Inf == 1000000

\* findNearestNode's "no node" (-1 in the code, indices being 0-based there)
NoNode == 0

\* delay of the timeout that clears a "locally updated" mark, in ms
SuppressionWindow == 2000

Status == {"passable", "restricted", "blocked"}

\* the component's state and refs as useState and useRef create them
MapContainerInit ==
    /\ roadStatusUpdates = <<>>
    /\ locallyUpdatedSegments = {}
    /\ timers = {}
    /\ lastEdit = {}
    /\ startPoint = <<>>
    /\ endPoint = <<>>
    /\ routeInfo = <<>>
    /\ routeLayer = <<>>
    /\ routeReport = [warn |-> "", notification |-> ""]

\* the update log before any call: an empty table, nothing in localStorage
UpdateLogInit ==
    /\ table = <<>>
    /\ localStore = <<>>
    /\ clock = 1
    /\ logPc = "idle"
    /\ fetched = <<>>
    /\ latestStatuses = <<>>
    /\ logged = {}

\* what stands beside the map component, before any of it has run
\* no line handed to splitLineAtIntersections
SplitIdle ==
    /\ splitLine = <<>>
    /\ splitIntersections = <<>>
    /\ splitSegments = <<>>
    /\ splitDone = FALSE

\* the real-time hook not in use
HookIdle ==
    /\ isComponentMounted = FALSE
    /\ subscription = 0
    /\ liveChannels = {}
    /\ reconnectTimeoutId = 0
    /\ pendingReconnects = {}
    /\ intervalId = FALSE
    /\ made = [channels |-> 0, timeouts |-> 0, fetches |-> 0]
    /\ inFlight = {}
    /\ dbStatus = "passable"
    /\ latestIssued = <<>>

\* the UserProvider of a page just loaded: initializeAuth waits for getSession
AuthIdle ==
    /\ session = <<>>
    /\ profile = <<>>
    /\ isLoggingOut = FALSE
    /\ initializing = "getSession"
    /\ lastActivity = 0
    /\ inactivityTimeoutRef = FALSE
    /\ warnings = {}
    /\ finals = {}
    /\ checks = {}
    /\ signOuts = 0
    /\ profileFetches = 0
    /\ sinceActivity = 0
    /\ forcedIdle = <<>>
    /\ authStep = "load"

SideInit == UpdateLogInit /\ SplitIdle /\ HookIdle /\ AuthIdle

-----------------------------------------------------------------------------
(* Geometry *)

PtA == <<0, 0>>
PtB == <<4, 0>>
PtC == <<0, 3>>
PtD == <<4, 3>>

\* Road polylines of the patch, as [lat, lng] cell pairs.
\*   1: the direct road A-B (4 cells = 100 m)
\*   2: the detour A-C-D-B (3 + 4 + 3 cells = 250 m)
\*   3: C-C-B, a repeated coordinate followed by a diagonal (125 m)
\*   4: the diagonal A-D (125 m)
\*   5: D-B, digitised a second time beside the detour's last leg (75 m)
\*   6: B-A, the direct road digitised a second time in the other direction
\*   7: C-D, digitised a second time beside the detour's middle leg (100 m)
\*   8: a line of the single coordinate C
RoadPool ==
    << <<PtA, PtB>>,
       <<PtA, PtC, PtD, PtB>>,
       <<PtC, PtC, PtB>>,
       <<PtA, PtD>>,
       <<PtD, PtB>>,
       <<PtB, PtA>>,
       <<PtC, PtD>>,
       <<PtC>> >>

LineIds == <<"way/1", "way/2", "way/3", "way/4", "way/5", "way/6", "way/7", "way/8">>

SqDist(p, q) == (p[1] - q[1]) * (p[1] - q[1]) + (p[2] - q[2]) * (p[2] - q[2])

\* least r with r * r >= n
CeilSqrt(n) == CHOOSE r \in 0..130 : r * r >= n /\ (r = 0 \/ (r - 1) * (r - 1) < n)

\* metres between cells at squared cell distance sq (25 m per cell), rounded up
HaversineTable == [sq \in 0..25 |-> CeilSqrt(625 * sq)]

\* haversineDistance(lat1, lon1, lat2, lon2), in metres
haversineDistance(p, q) == HaversineTable[SqDist(p, q)]

-----------------------------------------------------------------------------
(* buildGraph *)

\* key of getOrCreateNode: both coordinates printed with 9 decimals.  A whole
\* cell is printed exactly, so two coordinates share a key iff they are equal.
NodeKey(p) == <<p[1], p[2]>>

nodeIndex(nodes, p) ==
    IF \E i \in 1..Len(nodes) : NodeKey(<<nodes[i].lat, nodes[i].lng>>) = NodeKey(p)
    THEN CHOOSE i \in 1..Len(nodes) : NodeKey(<<nodes[i].lat, nodes[i].lng>>) = NodeKey(p)
    ELSE NoNode

getOrCreateNode(nodes, p) ==
    IF nodeIndex(nodes, p) # NoNode
    THEN nodes
    ELSE Append(nodes, [id |-> Len(nodes) + 1, lat |-> p[1], lng |-> p[2], edges |-> <<>>])

skipSegment_never(seg) == FALSE

\* if (seg.status === 'blocked') continue;
skipSegment(seg) == seg.status = "blocked"

baseCost_flat(status, tall) == 2

baseCost_tallPenalised(status, tall) ==
    IF status = "restricted" THEN 6 ELSE 2

\* baseCost, doubled: 0.5 -> 1, 1 -> 2, 3 -> 6
baseCost(status, tall) ==
    IF tall
    THEN (IF status = "restricted" THEN 1 ELSE 2)
    ELSE (IF status = "restricted" THEN 6 ELSE 2)

addEdgePair_oneWay(nodes, idx1, idx2, dist) ==
    [nodes EXCEPT ![idx1].edges = Append(@, [to |-> idx2, cost |-> dist])]

\* nodes[idx1].edges.push({to: idx2, cost}); nodes[idx2].edges.push({to: idx1, cost})
addEdgePair(nodes, idx1, idx2, dist) ==
    LET n1 == [nodes EXCEPT ![idx1].edges = Append(@, [to |-> idx2, cost |-> dist])]
    IN  [n1 EXCEPT ![idx2].edges = Append(@, [to |-> idx1, cost |-> dist])]

RECURSIVE addCoordPairs(_, _, _, _)
\* the inner loop over the consecutive coordinate pairs of one segment
addCoordPairs(nodes, coords, i, cost2) ==
    IF i > Len(coords) - 1
    THEN nodes
    ELSE LET n1   == getOrCreateNode(nodes, coords[i])
             idx1 == nodeIndex(n1, coords[i])
             n2   == getOrCreateNode(n1, coords[i + 1])
             idx2 == nodeIndex(n2, coords[i + 1])
             dist == haversineDistance(coords[i], coords[i + 1]) * cost2
         IN  addCoordPairs(addEdgePair(n2, idx1, idx2, dist), coords, i + 1, cost2)

RECURSIVE buildGraphFrom(_, _, _, _)
\* the outer loop over the segments
buildGraphFrom(nodes, segs, k, tall) ==
    IF k > Len(segs)
    THEN nodes
    ELSE IF skipSegment(segs[k])
         THEN buildGraphFrom(nodes, segs, k + 1, tall)
         ELSE buildGraphFrom(
                  addCoordPairs(nodes, segs[k].coordinates, 1,
                                baseCost(segs[k].status, tall)),
                  segs, k + 1, tall)

buildGraph(segs, tall) == buildGraphFrom(<<>>, segs, 1, tall)

-----------------------------------------------------------------------------
(* astar *)

heuristic_inflated(a, b) == 8 * haversineDistance(<<a.lat, a.lng>>, <<b.lat, b.lng>>)

\* heuristic(a, b): haversine distance, in half metres like the costs
heuristic(a, b) == 2 * haversineDistance(<<a.lat, a.lng>>, <<b.lat, b.lng>>)

openSetAdd_dropped(open, idx) == open

\* openSet.add(idx): a Set keeps insertion order and ignores a member
openSetAdd(open, idx) ==
    IF \E i \in 1..Len(open) : open[i] = idx THEN open ELSE Append(open, idx)

\* openSet.delete(idx)
openSetDelete(open, idx) == SelectSeq(open, LAMBDA x : x # idx)

RECURSIVE pickCurrent(_, _, _, _, _)
\* openSet.forEach(idx => { if (fScore.get(idx) < currentF) ... })
pickCurrent(open, fScore, i, current, currentF) ==
    IF i > Len(open)
    THEN current
    ELSE IF fScore[open[i]] < currentF
         THEN pickCurrent(open, fScore, i + 1, open[i], fScore[open[i]])
         ELSE pickCurrent(open, fScore, i + 1, current, currentF)

reconstructPath_goalOnly(cameFrom, path) == path

RECURSIVE reconstructPath(_, _)
\* while (cameFrom.has(current)) { current = cameFrom.get(current); path.unshift(current) }
\* (a chain longer than the node count has a cycle: the code would not return)
reconstructPath(cameFrom, path) ==
    IF cameFrom[Head(path)] # NoNode /\ Len(path) <= Len(cameFrom)
    THEN reconstructPath(cameFrom, <<cameFrom[Head(path)]>> \o path)
    ELSE path

RECURSIVE relaxEdges(_, _, _, _, _)
\* for (const edge of graph.nodes[current].edges) { ... }
relaxEdges(G, goal, current, k, st) ==
    IF k > Len(G[current].edges)
    THEN st
    ELSE LET edge       == G[current].edges[k]
             tentativeG == st.gScore[current] + edge.cost
         IN  IF tentativeG < st.gScore[edge.to]
             THEN relaxEdges(G, goal, current, k + 1,
                      [st EXCEPT !.cameFrom[edge.to] = current,
                                 !.gScore[edge.to]   = tentativeG,
                                 !.fScore[edge.to]   = tentativeG + heuristic(G[edge.to], G[goal]),
                                 !.openSet           = openSetAdd(@, edge.to)])
             ELSE relaxEdges(G, goal, current, k + 1, st)

astarIdle ==
    [openSet |-> <<>>, cameFrom |-> <<>>, gScore |-> <<>>, fScore |-> <<>>,
     ret |-> "idle", path |-> <<>>]

\* the state of astar on entering the while loop
astarInit(G, start, goal) ==
    [openSet  |-> <<start>>,
     cameFrom |-> [i \in 1..Len(G) |-> NoNode],
     gScore   |-> [i \in 1..Len(G) |-> IF i = start THEN 0 ELSE Inf],
     fScore   |-> [i \in 1..Len(G) |-> IF i = start THEN heuristic(G[start], G[goal]) ELSE Inf],
     ret      |-> "running",
     path     |-> <<>>]

\* one pass of the while loop, with the loop test that follows it:
\* ret is "path" (return path), "null" (return null), "throw" (graph.nodes[-1])
\* or "hang" (the back-pointer walk never ends)
astarIter(G, goal, st) ==
    LET current == pickCurrent(st.openSet, st.fScore, 1, NoNode, Inf) IN
    IF current = goal
    THEN LET path == reconstructPath(st.cameFrom, <<current>>) IN
         IF Len(path) > Len(G)
         THEN [st EXCEPT !.ret = "hang"]
         ELSE [st EXCEPT !.ret = "path", !.path = path]
    ELSE IF current = NoNode
    THEN [st EXCEPT !.ret = "throw"]
    ELSE LET st1 == relaxEdges(G, goal, current, 1,
                               [st EXCEPT !.openSet = openSetDelete(@, current)])
         IN  IF Len(st1.openSet) = 0 THEN [st1 EXCEPT !.ret = "null"] ELSE st1

RECURSIVE astarLoop(_, _, _)
astarLoop(G, goal, st) ==
    IF st.ret # "running" THEN st ELSE astarLoop(G, goal, astarIter(G, goal, st))

\* astar(graph, startIdx, goalIdx), run to its return
astar(G, start, goal) == astarLoop(G, goal, astarInit(G, start, goal))

-----------------------------------------------------------------------------
(* findNearestNode *)

RECURSIVE findNearestNodeFrom(_, _, _, _, _)
\* graph.nodes.forEach((node, idx) => { if (d < bestDist) ... })
findNearestNodeFrom(G, p, i, bestIdx, bestDist) ==
    IF i > Len(G) THEN bestIdx
    ELSE LET d == haversineDistance(p, <<G[i].lat, G[i].lng>>) IN
         IF d < bestDist
         THEN findNearestNodeFrom(G, p, i + 1, i, d)
         ELSE findNearestNodeFrom(G, p, i + 1, bestIdx, bestDist)

findNearestNode_first(G, p) == IF Len(G) = 0 THEN NoNode ELSE 1

findNearestNode(G, p) == findNearestNodeFrom(G, p, 1, NoNode, Inf)

-----------------------------------------------------------------------------
(* The routing pipeline applied to drawn inputs: buildGraph, then astar *)

\* the points findNearestNode is asked for: on a node, between two nodes at
\* the same distance from both, and off every road
QueryPoints == {<<0, 3>>, <<2, 0>>, <<1, 2>>, <<3, 1>>, <<4, 3>>}

PoolSegment(k, status) ==
    [id |-> <<LineIds[k], "seg", 0>>, coordinates |-> RoadPool[k], status |-> status]

InitRoute ==
    /\ \E st \in [1..NumRoads -> Status] :
           roadSegments = [k \in 1..NumRoads |-> PoolSegment(k, st[k])]
    /\ tallVehicleRouting \in BOOLEAN
    /\ graph = <<>>
    /\ startIdx = NoNode
    /\ goalIdx = NoNode
    /\ ast = astarIdle
    /\ pc = "input"
    /\ features = <<>>
    /\ latestStatusMap = <<>>
    /\ mounts = 0
    /\ previousRun = {}
    /\ MapContainerInit
    /\ SideInit

BuildGraphCall ==
    /\ pc = "input"
    /\ graph' = buildGraph(roadSegments, tallVehicleRouting)
    /\ pc' = "built"
    /\ UNCHANGED <<roadSegments, tallVehicleRouting, startIdx, goalIdx, ast, asmVars, mapVars>>
    /\ UNCHANGED sideVars

AstarCall ==
    /\ pc = "built"
    /\ \E s \in 1..Len(graph), g \in 1..Len(graph) :
           /\ startIdx' = s
           /\ goalIdx' = g
           /\ ast' = astarInit(graph, s, g)
    /\ pc' = "search"
    /\ UNCHANGED <<roadSegments, tallVehicleRouting, graph, asmVars, mapVars>>
    /\ UNCHANGED sideVars

\* a pass of the while loop that leaves the picked node in the open set
AstarIteration_keepsCurrent ==
    /\ pc = "search"
    /\ ast.ret = "running"
    /\ LET current == pickCurrent(ast.openSet, ast.fScore, 1, NoNode, Inf) IN
           ast' = IF current = goalIdx \/ current = NoNode
                  THEN astarIter(graph, goalIdx, ast)
                  ELSE relaxEdges(graph, goalIdx, current, 1, ast)
    /\ pc' = IF ast'.ret = "running" THEN "search" ELSE "done"
    /\ UNCHANGED <<roadSegments, tallVehicleRouting, graph, startIdx, goalIdx, asmVars, mapVars>>
    /\ UNCHANGED sideVars

AstarIteration ==
    /\ pc = "search"
    /\ ast.ret = "running"
    /\ ast' = astarIter(graph, goalIdx, ast)
    /\ pc' = IF ast'.ret = "running" THEN "search" ELSE "done"
    /\ UNCHANGED <<roadSegments, tallVehicleRouting, graph, startIdx, goalIdx, asmVars, mapVars>>
    /\ UNCHANGED sideVars

\* findNearestNode(graph, lat, lng) for a query point, as the routing effect calls it
FindNearestNodeCall ==
    /\ pc = "built"
    /\ \E p \in QueryPoints :
           /\ startPoint' = p
           /\ startIdx' = findNearestNode(graph, p)
    /\ pc' = "located"
    /\ UNCHANGED <<roadSegments, tallVehicleRouting, graph, goalIdx, ast, asmVars,
                   roadStatusUpdates, locallyUpdatedSegments, timers, lastEdit,
                   endPoint, routeInfo, routeLayer, routeReport>>
    /\ UNCHANGED sideVars


-----------------------------------------------------------------------------
(* Segment assembly: MapContainer.tsx, the helpers above the component *)

\* a point met by two lines is kept exactly, as the fraction (x/d, y/d), d > 0
Abs(n) == IF n < 0 THEN -n ELSE n

RECURSIVE FloorSqrtIn(_, _, _)
FloorSqrtIn(n, lo, hi) ==
    IF lo >= hi THEN lo
    ELSE LET mid == (lo + hi + 1) \div 2 IN
         IF mid * mid <= n THEN FloorSqrtIn(n, mid, hi) ELSE FloorSqrtIn(n, lo, mid - 1)

\* Math.sqrt, rounded down to a whole number
FloorSqrt(n) == FloorSqrtIn(n, 0, 46340)

\* getLineIntersection(p1, p2, p3, p4): "null" or the crossing point.
\* denom is a whole number of squared cells, so |denom| < 1e-10 means denom = 0.
getLineIntersection(p1, p2, p3, p4) ==
    LET x1 == p1[1]  y1 == p1[2]
        x2 == p2[1]  y2 == p2[2]
        x3 == p3[1]  y3 == p3[2]
        x4 == p4[1]  y4 == p4[2]
        denom == (x1 - x2) * (y3 - y4) - (y1 - y2) * (x3 - x4)
        tn == (x1 - x3) * (y3 - y4) - (y1 - y3) * (x3 - x4)
        un == -((x1 - x2) * (y1 - y3) - (y1 - y2) * (x1 - x3))
        sg == IF denom < 0 THEN -1 ELSE 1
        inRange(n) == 0 <= sg * n /\ sg * n <= sg * denom
    IN  IF denom = 0 THEN <<>>
        ELSE IF inRange(tn) /\ inRange(un)
             THEN << [x |-> x1 * sg * denom + sg * tn * (x2 - x1),
                      y |-> y1 * sg * denom + sg * tn * (y2 - y1),
                      d |-> sg * denom] >>
             ELSE <<>>

RECURSIVE findIntersectionsFrom(_, _, _, _)
\* the double loop of findIntersections, pair (i, j) and onwards
findIntersectionsFrom(line1, line2, i, j) ==
    IF i > Len(line1) - 1 THEN <<>>
    ELSE IF j > Len(line2) - 1 THEN findIntersectionsFrom(line1, line2, i + 1, 1)
    ELSE getLineIntersection(line1[i], line1[i + 1], line2[j], line2[j + 1])
             \o findIntersectionsFrom(line1, line2, i, j + 1)

findIntersections(line1, line2) == findIntersectionsFrom(line1, line2, 1, 1)

\* the clamped projection parameter t = tnum / tden of point pt on [a, b]
ProjNum(pt, a, b) ==
    LET dot == (pt.x - a[1] * pt.d) * (b[1] - a[1]) + (pt.y - a[2] * pt.d) * (b[2] - a[2])
        tden == pt.d * SqDist(a, b)
    IN  IF dot < 0 THEN 0 ELSE IF dot > tden THEN tden ELSE dot

\* pointToLineDistance(point, lineStart, lineEnd), in 1/10000 cell
pointToLineDistance(pt, a, b) ==
    IF SqDist(a, b) = 0
    THEN (FloorSqrt(100 * ((pt.x - a[1] * pt.d) * (pt.x - a[1] * pt.d)
                           + (pt.y - a[2] * pt.d) * (pt.y - a[2] * pt.d))) * 1000) \div pt.d
    ELSE LET tden == pt.d * SqDist(a, b)
             tnum == ProjNum(pt, a, b)
             ex == pt.x * SqDist(a, b) - a[1] * tden - tnum * (b[1] - a[1])
             ey == pt.y * SqDist(a, b) - a[2] * tden - tnum * (b[2] - a[2])
         IN  (FloorSqrt(100 * (ex * ex + ey * ey)) * 1000) \div tden

\* getProjectionDistance(point, lineStart, lineEnd), in 1/1000 cell
getProjectionDistance(pt, a, b) ==
    IF SqDist(a, b) = 0 THEN 0
    ELSE (ProjNum(pt, a, b) * FloorSqrt(1000000 * SqDist(a, b))) \div (pt.d * SqDist(a, b))

RECURSIVE getDistanceAlongLineFrom(_, _, _, _, _, _)
\* the loop of getDistanceAlongLine, in 1/1000 cell; minDistance = -1 stands
\* for Infinity
getDistanceAlongLineFrom(line, pt, i, minDistance, bestDistance, accumulated) ==
    IF i > Len(line) - 1 THEN bestDistance
    ELSE LET dts == pointToLineDistance(pt, line[i], line[i + 1])
             len == FloorSqrt(1000000 * SqDist(line[i], line[i + 1]))
         IN  IF minDistance = -1 \/ dts < minDistance
             THEN getDistanceAlongLineFrom(line, pt, i + 1, dts,
                      accumulated + getProjectionDistance(pt, line[i], line[i + 1]),
                      accumulated + len)
             ELSE getDistanceAlongLineFrom(line, pt, i + 1, minDistance, bestDistance,
                                           accumulated + len)

getDistanceAlongLine(line, pt) == getDistanceAlongLineFrom(line, pt, 1, -1, 0, 0)

RECURSIVE findNearestPointIndexFrom(_, _, _, _, _)
\* the loop of findNearestPointIndex; distances compared by their squares
\* (times d * d); the index returned is 0-based like the code's
findNearestPointIndexFrom(line, pt, i, minSq, nearestIndex) ==
    IF i > Len(line) THEN nearestIndex
    ELSE LET sq == (line[i][1] * pt.d - pt.x) * (line[i][1] * pt.d - pt.x)
                   + (line[i][2] * pt.d - pt.y) * (line[i][2] * pt.d - pt.y)
         IN  IF minSq = -1 \/ sq < minSq
             THEN findNearestPointIndexFrom(line, pt, i + 1, sq, i - 1)
             ELSE findNearestPointIndexFrom(line, pt, i + 1, minSq, nearestIndex)

findNearestPointIndex(line, pt) == findNearestPointIndexFrom(line, pt, 1, -1, 0)

RECURSIVE sortByDistance(_, _)
\* Array.prototype.sort by distance along the line (stable)
sortByDistance(line, pts) ==
    IF Len(pts) = 0 THEN <<>>
    ELSE LET rest == sortByDistance(line, Tail(pts))
             key  == getDistanceAlongLine(line, Head(pts))
             n    == Cardinality({k \in 1..Len(rest) : getDistanceAlongLine(line, rest[k]) < key})
         IN  SubSeq(rest, 1, n) \o <<Head(pts)>> \o SubSeq(rest, n + 1, Len(rest))

\* line.slice(from, to), both 0-based, to exclusive
Slice(line, from, to) == SubSeq(line, from + 1, to)

-----------------------------------------------------------------------------
(* createDeterministicId *)

\* coordinates are cells of 225 micro-degrees; toFixed(6) prints "0." and the
\* six digits of the micro-degrees; the result is the list of character codes
toFixed6(c) ==
    LET micro == 225 * c IN
    <<48, 46,
      48 + ((micro \div 100000) % 10), 48 + ((micro \div 10000) % 10),
      48 + ((micro \div 1000) % 10),   48 + ((micro \div 100) % 10),
      48 + ((micro \div 10) % 10),     48 + (micro % 10)>>

RECURSIVE coordString(_)
\* coordinates.map(c => `${c[0].toFixed(6)},${c[1].toFixed(6)}`).join('|')
coordString(coords) ==
    IF Len(coords) = 0 THEN <<>>
    ELSE toFixed6(coords[1][1]) \o <<44>> \o toFixed6(coords[1][2])
         \o (IF Len(coords) = 1 THEN <<>> ELSE <<124>> \o coordString(Tail(coords)))

RECURSIVE hashFrom(_, _, _)
\* hash = ((hash << 5) - hash) + char; hash = hash & hash -- a 32-bit word, kept
\* as its two 16-bit halves <<hi, lo>>
hashFrom(str, i, h) ==
    IF i > Len(str) \/ h[1] < 0 THEN h
    ELSE LET lo == h[2] * 31 + str[i]
             hi == h[1] * 31 + lo \div 65536
         IN  hashFrom(str, i + 1, <<hi % 65536, lo % 65536>>)

\* Math.abs of the signed 32-bit word
absWord(h) ==
    IF h[1] < 32768 THEN h
    ELSE IF h[2] = 0 THEN <<(65536 - h[1]) % 65536, 0>>
    ELSE <<65535 - h[1], 65536 - h[2]>>

NoLineId == ""

\* segment ids drawn from a counter that lives as long as the module (makeId)
createDeterministicId_makeId(coordinates, lineId, segmentIndex) ==
    <<lineId, "seg", segmentIndex + mounts>>

createDeterministicId(coordinates, lineId, segmentIndex) ==
    IF lineId # NoLineId
    THEN <<lineId, "seg", segmentIndex>>
    ELSE <<"seg", absWord(hashFrom(coordString(coordinates), 1, <<0, 0>>))>>

-----------------------------------------------------------------------------
(* splitLineAtIntersections *)

newSegment(coords, lineId, index) ==
    [id |-> createDeterministicId(coords, lineId, index),
     coordinates |-> coords,
     status |-> "passable"]

RECURSIVE splitLoop(_, _, _, _, _, _)
\* the for loop over the sorted intersections and the final segment after it;
\* currentStart is 0-based like the code's
splitLoop(line, sorted, i, currentStart, segments, lineId) ==
    IF i > Len(sorted)
    THEN IF currentStart < Len(line) - 1 /\ Len(Slice(line, currentStart, Len(line))) > 1
         THEN Append(segments, newSegment(Slice(line, currentStart, Len(line)), lineId, Len(segments)))
         ELSE segments
    ELSE LET intersectionIndex == findNearestPointIndex(line, sorted[i])
             segmentCoords == Slice(line, currentStart, intersectionIndex + 1)
         IN  splitLoop(line, sorted, i + 1, intersectionIndex,
                 IF intersectionIndex > currentStart /\ Len(segmentCoords) > 1
                 THEN Append(segments, newSegment(segmentCoords, lineId, Len(segments)))
                 ELSE segments,
                 lineId)

splitLineAtIntersections(line, intersections, lineId) ==
    IF Len(intersections) = 0
    THEN <<newSegment(line, lineId, 0)>>
    ELSE splitLoop(line, sortByDistance(line, intersections), 1, 0, <<>>, lineId)

-----------------------------------------------------------------------------
(* initializeSegments *)

\* a GeoJSON feature of roadData: coordinates in [lng, lat] order
Feature(k, lineId, highway) ==
    [lineId |-> lineId, highway |-> highway,
     coordinates |-> [i \in 1..Len(RoadPool[k]) |-> <<RoadPool[k][i][2], RoadPool[k][i][1]>>]]

\* Feature collections the component is mounted on.
\*   1: the direct road and the detour
\*   2: a road without an identifier and the diagonal A-D
\*   3: the detour, the road C-C-B that meets it at its inner vertex C, and a footway
\*   4: two roads without identifier, and the detour
\*   5: the direct road and a feature of a single coordinate
\*   6: the direct road drawn in both directions, and the road D-B
Collections ==
    << <<Feature(1, "way/1", "residential"), Feature(2, "way/2", "residential")>>,
       <<Feature(1, NoLineId, "residential"), Feature(4, "way/4", "tertiary")>>,
       <<Feature(2, "way/2", "residential"), Feature(3, "way/3", "service"),
         Feature(4, "way/4", "footway")>>,
       <<Feature(5, NoLineId, "residential"), Feature(7, NoLineId, "residential"),
         Feature(2, "way/2", "residential")>>,
       <<Feature(1, "way/1", "residential"), Feature(8, "way/8", "residential")>>,
       <<Feature(1, "way/1", "residential"), Feature(6, "way/6", "residential"),
         Feature(5, "way/5", "unclassified")>> >>

\* coordinates.map(coord => [coord[1], coord[0]])
toLatLng(coordinates) == [i \in 1..Len(coordinates) |-> <<coordinates[i][2], coordinates[i][1]>>]

\* features.filter(f => highway && !['footway','cycleway','path','steps'].includes(highway))
roadFeaturesOf(fs) ==
    SelectSeq(fs, LAMBDA f : f.highway # "" /\ f.highway \notin {"footway", "cycleway", "path", "steps"})

RECURSIVE allIntersectionsFrom(_, _, _)
\* the double loop over the feature pairs i < j
allIntersectionsFrom(rf, i, j) ==
    IF i > Len(rf) THEN <<>>
    ELSE IF j > Len(rf) THEN allIntersectionsFrom(rf, i + 1, i + 2)
    ELSE findIntersections(toLatLng(rf[i].coordinates), toLatLng(rf[j].coordinates))
             \o allIntersectionsFrom(rf, i, j + 1)

\* |point - intersection| < 0.0001 degrees in both coordinates; a cell is
\* 0.000225 degrees, so the tolerance is 4/9 of a cell
nearVertex(line, pt) ==
    \E i \in 1..Len(line) :
        /\ 9 * Abs(line[i][1] * pt.d - pt.x) < 4 * pt.d
        /\ 9 * Abs(line[i][2] * pt.d - pt.y) < 4 * pt.d

\* the RoadStatusUpdate object found under a segment id, as the status field sees it
StatusObject(s) ==
    CASE s = "passable"   -> "{RoadStatusUpdate passable}"
      [] s = "restricted" -> "{RoadStatusUpdate restricted}"
      [] s = "blocked"    -> "{RoadStatusUpdate blocked}"

\* const dbStatus = latestStatusMap[segment.id]; if (dbStatus) segment.status = dbStatus
overlayStatus(segment, latest) ==
    IF segment.id \in DOMAIN latest
    THEN [segment EXCEPT !.status = StatusObject(latest[segment.id])]
    ELSE segment

RECURSIVE segmentsOfFeatures(_, _, _, _)
\* the loop "for (const feature of roadFeatures)"
segmentsOfFeatures(rf, k, allIntersections, latest) ==
    IF k > Len(rf) THEN <<>>
    ELSE LET line == toLatLng(rf[k].coordinates)
             lineIntersections == SelectSeq(allIntersections, LAMBDA pt : nearVertex(line, pt))
             segments == splitLineAtIntersections(line, lineIntersections, rf[k].lineId)
         IN  [i \in 1..Len(segments) |-> overlayStatus(segments[i], latest)]
                 \o segmentsOfFeatures(rf, k + 1, allIntersections, latest)

\* initializeSegments, up to setRoadSegments(allSegments); latest is what
\* getLatestStatusBySegment resolved to: segment id -> status of its latest update
initializeSegments(fs, latest) ==
    LET rf == roadFeaturesOf(fs) IN
    segmentsOfFeatures(rf, 1, allIntersectionsFrom(rf, 1, 2), latest)

-----------------------------------------------------------------------------
(* MapContainer: the real-time status effect and the routing effect *)

\* pathIdxs.map(idx => [graph.nodes[idx].lat, graph.nodes[idx].lng])
nodesToLatLng(G, pathIdxs) == [i \in 1..Len(pathIdxs) |-> <<G[pathIdxs[i]].lat, G[pathIdxs[i]].lng>>]

RECURSIVE calculateRouteDistance(_, _)
\* sum of the haversine distances between consecutive nodes of the path, in metres
calculateRouteDistance(G, pathIdxs) ==
    IF Len(pathIdxs) < 2 THEN 0
    ELSE haversineDistance(<<G[pathIdxs[1]].lat, G[pathIdxs[1]].lng>>,
                           <<G[pathIdxs[2]].lat, G[pathIdxs[2]].lng>>)
             + calculateRouteDistance(G, Tail(pathIdxs))

\* the status the effect's latestStatusMap holds for an id after
\* roadStatusUpdates.forEach(update => latestStatusMap[update.segment_id] = update.status);
\* "" stands for undefined
latestStatusOf(updates, id) ==
    LET at == {i \in 1..Len(updates) : updates[i].segment_id = id} IN
    IF at = {} THEN "" ELSE updates[CHOOSE i \in at : \A j \in at : j <= i].status

realTimeEffect_reset(segs, updates, pending) ==
    [i \in 1..Len(segs) |->
        IF segs[i].id \in pending THEN segs[i]
        ELSE IF latestStatusOf(updates, segs[i].id) # ""
             THEN [segs[i] EXCEPT !.status = latestStatusOf(updates, segs[i].id)]
             ELSE [segs[i] EXCEPT !.status = "passable"]]

\* the status effect storing the update object as the status of the segment
realTimeEffect_object(segs, updates, pending) ==
    IF Len(updates) = 0 \/ Len(segs) = 0 THEN segs
    ELSE [i \in 1..Len(segs) |->
             LET latestStatus == latestStatusOf(updates, segs[i].id) IN
             IF segs[i].id \in pending \/ latestStatus = "" THEN segs[i]
             ELSE [segs[i] EXCEPT !.status = StatusObject(latestStatus)]]

\* the real-time status effect, up to setRoadSegments(updatedSegments)
realTimeEffect(segs, updates, pending) ==
    IF Len(updates) = 0 \/ Len(segs) = 0 THEN segs
    ELSE [i \in 1..Len(segs) |->
             LET latestStatus == latestStatusOf(updates, segs[i].id) IN
             IF segs[i].id \in pending THEN segs[i]
             ELSE IF latestStatus # "" /\ latestStatus # segs[i].status
                  THEN [segs[i] EXCEPT !.status = latestStatus]
                  ELSE segs[i]]

\* the timeouts the real-time status effect has started when it returns
realTimeTimeouts(segs, updates, pending, tms) ==
    IF Len(updates) = 0 \/ Len(segs) = 0 THEN tms
    ELSE tms \cup {<<segs[i].id, SuppressionWindow>> : i \in {j \in 1..Len(segs) : segs[j].id \in pending}}

\* tall vehicles use restricted and passable segments, regular vehicles passable ones
filterSegments(segs, tall) ==
    IF tall
    THEN SelectSeq(segs, LAMBDA s : s.status = "restricted" \/ s.status = "passable")
    ELSE SelectSeq(segs, LAMBDA s : s.status = "passable")

\* what the routing effect leaves behind when no route is asked for
\* a run of the routing effect that reports nothing
noReport == [warn |-> "", notification |-> ""]

noRoute ==
    [routeInfo |-> <<>>, routeLayer |-> <<>>, graph |-> <<>>,
     startIdx |-> NoNode, goalIdx |-> NoNode, ast |-> astarIdle, report |-> noReport]

\* the branch taken when astar gave null or an empty path
noRouteFound(prev, G, startNodeIdx, endNodeIdx, st) ==
    [prev EXCEPT !.routeInfo = <<>>, !.graph = G, !.startIdx = startNodeIdx,
                 !.goalIdx = endNodeIdx, !.ast = st,
                 !.report = [warn |-> "No route found",
                             notification |-> "No available route found"]]

\* the lookup failure handled as the no-route branch handles its case
lookupFailed_asNoRoute(prev, G, startNodeIdx, endNodeIdx) ==
    noRouteFound(prev, G, startNodeIdx, endNodeIdx, astarIdle)

\* the branch taken when a nearest-node lookup gave -1
lookupFailed(prev, G, startNodeIdx, endNodeIdx) ==
    [prev EXCEPT !.graph = G, !.startIdx = startNodeIdx, !.goalIdx = endNodeIdx,
                 !.ast = astarIdle,
                 !.report = [warn |-> "Could not find nearest nodes for routing",
                             notification |-> ""]]

\* the routing effect; prev is the route state it finds
routingEffect(segs, tall, sp, ep, prev) ==
    IF sp = <<>> \/ ep = <<>> \/ Len(segs) = 0
    THEN noRoute
    ELSE LET G            == buildGraph(filterSegments(segs, tall), tall)
             startNodeIdx == findNearestNode(G, sp)
             endNodeIdx   == findNearestNode(G, ep)
         IN  IF startNodeIdx = NoNode \/ endNodeIdx = NoNode
             THEN lookupFailed(prev, G, startNodeIdx, endNodeIdx)
             ELSE LET st == astar(G, startNodeIdx, endNodeIdx) IN
                  IF st.ret # "path" \/ Len(st.path) = 0
                  THEN noRouteFound(prev, G, startNodeIdx, endNodeIdx, st)
                  ELSE [routeInfo |-> <<calculateRouteDistance(G, st.path)>>,
                        routeLayer |-> nodesToLatLng(G, st.path),
                        graph |-> G, startIdx |-> startNodeIdx, goalIdx |-> endNodeIdx,
                        ast |-> st, report |-> noReport]

\* the route state of the component
routeState ==
    [routeInfo |-> routeInfo, routeLayer |-> routeLayer, graph |-> graph,
     startIdx |-> startIdx, goalIdx |-> goalIdx, ast |-> ast, report |-> routeReport]

\* the effects without the render that setRoadSegments causes
runEffects_noRerender(segs, updates, pending, tms, tall, sp, ep, prev, statusDeps, routingDeps) ==
    [roadSegments |-> IF statusDeps THEN realTimeEffect(segs, updates, pending) ELSE segs,
     timers |-> IF statusDeps THEN realTimeTimeouts(segs, updates, pending, tms) ELSE tms,
     route |-> IF routingDeps THEN routingEffect(segs, tall, sp, ep, prev) ELSE prev]

\* The effects that follow a state change, run until the component is at rest.
\* statusDeps / routingDeps: a dependency of the real-time status effect / of
\* the routing effect has changed.  Effects run in the order they are declared;
\* when the status effect has set new segments the component renders again and
\* both effects run on the new segments.
runEffects(segs, updates, pending, tms, tall, sp, ep, prev, statusDeps, routingDeps) ==
    LET segs1 == IF statusDeps THEN realTimeEffect(segs, updates, pending) ELSE segs
        tms1  == IF statusDeps THEN realTimeTimeouts(segs, updates, pending, tms) ELSE tms
        r1    == IF routingDeps THEN routingEffect(segs, tall, sp, ep, prev) ELSE prev
        again == segs1 # segs
        segs2 == IF again THEN realTimeEffect(segs1, updates, pending) ELSE segs1
        tms2  == IF again THEN realTimeTimeouts(segs1, updates, pending, tms1) ELSE tms1
        r2    == IF again THEN routingEffect(segs1, tall, sp, ep, r1) ELSE r1
    IN  [roadSegments |-> segs2, timers |-> tms2, route |-> r2]

\* the state the component comes to rest in
Settle(r) ==
    /\ roadSegments' = r.roadSegments
    /\ timers' = r.timers
    /\ routeInfo' = r.route.routeInfo
    /\ routeLayer' = r.route.routeLayer
    /\ routeReport' = r.route.report
    /\ graph' = r.route.graph
    /\ startIdx' = r.route.startIdx
    /\ goalIdx' = r.route.goalIdx
    /\ ast' = r.route.ast

-----------------------------------------------------------------------------
(* The routing effect on drawn segments and query points *)

\* a run of the routing effect with both points set, on the drawn segments
RoutingEffectCall ==
    /\ pc = "input"
    /\ \E sp \in QueryPoints, ep \in QueryPoints :
           /\ startPoint' = sp
           /\ endPoint' = ep
           /\ Settle(runEffects(roadSegments, roadStatusUpdates, locallyUpdatedSegments,
                                timers, tallVehicleRouting, sp, ep, routeState, FALSE, TRUE))
    /\ pc' = "routed"
    /\ UNCHANGED <<tallVehicleRouting, asmVars, roadStatusUpdates, locallyUpdatedSegments,
                   lastEdit>>
    /\ UNCHANGED sideVars

NextRoute ==
    BuildGraphCall \/ AstarCall \/ AstarIteration \/ FindNearestNodeCall \/ RoutingEffectCall

SpecRoute == InitRoute /\ [][NextRoute]_vars

\* astar runs its loop without interruption: a pass that can be made is made
SpecRouteFair == SpecRoute /\ WF_vars(AstarIteration)

-----------------------------------------------------------------------------
(* The component mounted on drawn inputs: the latest statuses are fetched, the
   segments are assembled; SpecAssembly mounts it again *)

\* number of feature collections drawn from
NumCollections == 5

\* number of times the component is mounted
MaxMounts == 2

\* number of segments a status is stored for
MaxStored == 1

\* the ids assembly gives the segments of a feature collection
SegmentIds(fs) ==
    LET segs == initializeSegments(fs, <<>>) IN {segs[i].id : i \in 1..Len(segs)}

\* the maps getLatestStatusBySegment can resolve to: known ids, any statuses
LatestStatusMaps(fs) ==
    UNION {[ids -> Status] : ids \in {S \in SUBSET SegmentIds(fs) : Cardinality(S) <= MaxStored}}

\* ids and coordinate sequences of assembled segments
IdsAndCoordinates(segs) == {<<segs[i].id, segs[i].coordinates>> : i \in 1..Len(segs)}

\* the component at its mount, before initializeSegments has run
AssemblyStart ==
    /\ roadSegments = <<>>
    /\ latestStatusMap = <<>>
    /\ mounts = 1
    /\ previousRun = {}
    /\ pc = "mounted"
    /\ tallVehicleRouting = FALSE
    /\ graph = <<>>
    /\ startIdx = NoNode
    /\ goalIdx = NoNode
    /\ ast = astarIdle
    /\ MapContainerInit
    /\ SideInit

InitAssembly ==
    /\ features \in {Collections[c] : c \in 1..NumCollections}
    /\ AssemblyStart

\* await getLatestStatusBySegment()
GetLatestStatus ==
    /\ pc = "mounted"
    /\ latestStatusMap' \in LatestStatusMaps(features)
    /\ pc' = "fetched"
    /\ UNCHANGED <<roadSegments, tallVehicleRouting, routeVars, features, mounts, previousRun, mapVars>>
    /\ UNCHANGED sideVars

\* the rest of initializeSegments, and the effects setRoadSegments sets off;
\* the fetched map is a local of initializeSegments and ends with it
AssembleSegments ==
    /\ pc = "fetched"
    /\ Settle(runEffects(initializeSegments(features, latestStatusMap), roadStatusUpdates,
                         locallyUpdatedSegments, timers, tallVehicleRouting,
                         startPoint, endPoint, routeState, TRUE, TRUE))
    /\ latestStatusMap' = <<>>
    /\ pc' = "assembled"
    /\ UNCHANGED <<tallVehicleRouting, features, mounts, previousRun, roadStatusUpdates,
                   locallyUpdatedSegments, lastEdit, startPoint, endPoint>>
    /\ UNCHANGED sideVars

\* the page is left and entered again: a new component instance runs the mount
\* effect on the same features; the module and the stored updates stay
Remount ==
    /\ pc = "assembled"
    /\ mounts < MaxMounts
    /\ mounts' = mounts + 1
    /\ previousRun' = IdsAndCoordinates(roadSegments)
    /\ roadSegments' = <<>>
    /\ pc' = "mounted"
    /\ UNCHANGED <<tallVehicleRouting, routeVars, features, latestStatusMap, mapVars>>
    /\ UNCHANGED sideVars

NextAssembly == GetLatestStatus \/ AssembleSegments \/ Remount

SpecAssembly == InitAssembly /\ [][NextAssembly]_vars

-----------------------------------------------------------------------------
(* The mounted component under local edits, feed deliveries, timeouts, map
   clicks and the vehicle-mode switch *)

\* largest number of updates in one delivery of the feed
MaxFeedLen == 1

\* time between two looks at the clock, in ms
TickMs == SuppressionWindow \div 2

\* positions of the segments the user edits and the feed reports on: the
\* first segment, which is the direct road
EditedPositions == {1}

\* where the user clicks: the start on one end of the direct road, the end on the other
ClickPoint(start) == IF start THEN PtA ELSE PtB

\* ids of the segments the user edits and the feed reports on
EditedIds(fs) ==
    LET segs == initializeSegments(fs, <<>>) IN
    {segs[i].id : i \in (1..Len(segs)) \cap EditedPositions}

RECURSIVE SeqsUpTo(_, _)
SeqsUpTo(S, n) ==
    IF n = 0 THEN {<<>>}
    ELSE SeqsUpTo(S, n - 1) \cup {Append(q, x) : q \in SeqsUpTo(S, n - 1), x \in S}

\* what the feed can deliver: updates of known segments, in any order
FeedSnapshots(fs) ==
    SeqsUpTo([segment_id : EditedIds(fs), status : Status], MaxFeedLen)

\* a click exactly on a coordinate of a segment that is not blocked:
\* findNearestRoadPoint returns the clicked point
OnOpenRoad(segs, p) ==
    \E i \in 1..Len(segs) :
        /\ segs[i].status # "blocked"
        /\ Len(segs[i].coordinates) >= 2
        /\ \E k \in 1..Len(segs[i].coordinates) : segs[i].coordinates[k] = p

Init ==
    /\ InitAssembly
    /\ features = Collections[1]

\* handleSegmentStatusSelect(newStatus) on the selected segment
HandleSegmentStatusSelect ==
    /\ pc = "assembled"
    /\ \E x \in (1..Len(roadSegments)) \cap EditedPositions, newStatus \in Status :
           LET id == roadSegments[x].id
               updatedSegments == [i \in 1..Len(roadSegments) |->
                                      IF roadSegments[i].id = id
                                      THEN [roadSegments[i] EXCEPT !.status = newStatus]
                                      ELSE roadSegments[i]]
               pending == locallyUpdatedSegments \cup {id}
           IN  /\ locallyUpdatedSegments' = pending
               /\ Settle(runEffects(updatedSegments, roadStatusUpdates, pending, timers,
                                    tallVehicleRouting, startPoint, endPoint, routeState,
                                    TRUE, TRUE))
               /\ lastEdit' = {e \in lastEdit : e.id # id}
                                  \cup {[id |-> id, status |-> newStatus, elapsed |-> 0]}
    /\ UNCHANGED <<tallVehicleRouting, pc, asmVars, roadStatusUpdates, startPoint, endPoint>>
    /\ UNCHANGED sideVars

\* the real-time hook sets roadStatusUpdates (initial fetch, change event or poll)
FeedDeliver ==
    /\ UNCHANGED <<tallVehicleRouting, pc, asmVars, locallyUpdatedSegments, lastEdit,
                   startPoint, endPoint>>
    /\ \E updates \in FeedSnapshots(features) :
           /\ roadStatusUpdates' = updates
           /\ Settle(runEffects(roadSegments, updates, locallyUpdatedSegments, timers,
                                tallVehicleRouting, startPoint, endPoint, routeState,
                                TRUE, FALSE))
    /\ UNCHANGED sideVars

\* the status fetch fails, with an error result or an exception:
\* setRoadStatusUpdates([])
FetchFails ==
    /\ UNCHANGED <<tallVehicleRouting, pc, asmVars, locallyUpdatedSegments, lastEdit,
                   startPoint, endPoint>>
    /\ roadStatusUpdates' = <<>>
    /\ Settle(runEffects(roadSegments, <<>>, locallyUpdatedSegments, timers,
                         tallVehicleRouting, startPoint, endPoint, routeState,
                         TRUE, FALSE))
    /\ UNCHANGED sideVars

\* a timeout started by the real-time status effect runs out:
\* locallyUpdatedSegments.current.delete(segment.id)
TimerFire ==
    /\ \E t \in timers :
           /\ t[2] <= 0
           /\ timers' = timers \ {t}
           /\ locallyUpdatedSegments' = locallyUpdatedSegments \ {t[1]}
    /\ UNCHANGED <<roadSegments, tallVehicleRouting, pc, routeVars, asmVars, roadStatusUpdates,
                   lastEdit, startPoint, endPoint, routeInfo, routeLayer, routeReport>>
    /\ UNCHANGED sideVars

\* TickMs pass; a timeout that has run out fires before more time passes
Tick ==
    /\ \A t \in timers : t[2] > 0
    /\ timers' = {<<t[1], t[2] - TickMs>> : t \in timers}
    /\ lastEdit' = {[e EXCEPT !.elapsed = @ + TickMs] :
                       e \in {d \in lastEdit : d.elapsed + TickMs < SuppressionWindow}}
    /\ UNCHANGED <<roadSegments, tallVehicleRouting, pc, routeVars, asmVars, roadStatusUpdates,
                   locallyUpdatedSegments, startPoint, endPoint, routeInfo, routeLayer, routeReport>>
    /\ UNCHANGED sideVars

\* handleMapClick on a point of an open road
MapClick ==
    /\ \E p \in {ClickPoint(startPoint = <<>> \/ endPoint # <<>>)} :
           /\ OnOpenRoad(roadSegments, p)
           /\ LET sp == IF startPoint = <<>> THEN p ELSE IF endPoint = <<>> THEN startPoint ELSE p
                  ep == IF startPoint = <<>> THEN endPoint ELSE IF endPoint = <<>> THEN p ELSE <<>>
              IN  /\ startPoint' = sp
                  /\ endPoint' = ep
                  /\ Settle(runEffects(roadSegments, roadStatusUpdates, locallyUpdatedSegments,
                                       timers, tallVehicleRouting, sp, ep, routeState,
                                       FALSE, TRUE))
    /\ UNCHANGED <<tallVehicleRouting, pc, asmVars, roadStatusUpdates, locallyUpdatedSegments,
                   lastEdit>>
    /\ UNCHANGED sideVars

\* the "Clear route" button
ClearRoute ==
    /\ startPoint # <<>> \/ endPoint # <<>>
    /\ startPoint' = <<>>
    /\ endPoint' = <<>>
    /\ Settle(runEffects(roadSegments, roadStatusUpdates, locallyUpdatedSegments, timers,
                         tallVehicleRouting, <<>>, <<>>,
                         [routeState EXCEPT !.routeInfo = <<>>, !.routeLayer = <<>>],
                         FALSE, TRUE))
    /\ UNCHANGED <<tallVehicleRouting, pc, asmVars, roadStatusUpdates, locallyUpdatedSegments,
                   lastEdit>>
    /\ UNCHANGED sideVars

\* the parent renders the component with the other vehicle mode
ToggleTallVehicleRouting ==
    /\ tallVehicleRouting' = ~tallVehicleRouting
    /\ Settle(runEffects(roadSegments, roadStatusUpdates, locallyUpdatedSegments, timers,
                         ~tallVehicleRouting, startPoint, endPoint, routeState,
                         FALSE, TRUE))
    /\ UNCHANGED <<pc, asmVars, roadStatusUpdates, locallyUpdatedSegments, lastEdit,
                   startPoint, endPoint>>
    /\ UNCHANGED sideVars

Next ==
    \/ GetLatestStatus
    \/ AssembleSegments
    \/ HandleSegmentStatusSelect
    \/ FeedDeliver
    \/ FetchFails
    \/ TimerFire
    \/ Tick
    \/ MapClick
    \/ ClearRoute
    \/ ToggleTallVehicleRouting

Spec == Init /\ [][Next]_vars

-----------------------------------------------------------------------------
(* Reference notions the routing claims are stated with *)

\* the set of <<u, k>>: the k-th edge of node u
EdgeEntries(G) == {uk \in (1..Len(G)) \X (1..8) : uk[2] <= Len(G[uk[1]].edges)}

\* the set of <<s, i>>: the i-th consecutive coordinate pair of segment s
CoordPairs(segs, keep(_)) ==
    {si \in (1..Len(segs)) \X (1..3) :
        keep(segs[si[1]]) /\ si[2] <= Len(segs[si[1]].coordinates) - 1}

NotBlocked(seg) == seg.status # "blocked"
IsBlocked(seg)  == seg.status = "blocked"

\* edge <<u, k>> of G joins the two ends of coordinate pair <<s, i>> at that pair's cost
EdgeOfPair(G, segs, tall, uk, si) ==
    LET e   == G[uk[1]].edges[uk[2]]
        seg == segs[si[1]]
        p   == seg.coordinates[si[2]]
        q   == seg.coordinates[si[2] + 1]
        u   == <<G[uk[1]].lat, G[uk[1]].lng>>
        v   == <<G[e.to].lat, G[e.to].lng>>
    IN  /\ {u, v} = {p, q}
        /\ (u = p /\ v = q) \/ (u = q /\ v = p)
        /\ e.cost = haversineDistance(p, q) * (IF seg.status = "restricted"
                                                THEN (IF tall THEN 1 ELSE 6) ELSE 2)

\* number of edges from u to v with cost c
EdgeCount(G, u, v, c) ==
    Cardinality({k \in 1..Len(G[u].edges) : G[u].edges[k].to = v /\ G[u].edges[k].cost = c})

EdgeCosts(G, u, v) == {G[u].edges[k].cost : k \in {j \in 1..Len(G[u].edges) : G[u].edges[j].to = v}}

MinOf(S) == CHOOSE x \in S : \A y \in S : x <= y

\* every consecutive pair of the path is joined by an edge
IsWalk(G, path) == \A i \in 1..(Len(path) - 1) : EdgeCosts(G, path[i], path[i + 1]) # {}

RECURSIVE PathCost(_, _)
\* sum of the costs of the path's edges (the cheapest edge where two nodes are joined twice)
PathCost(G, path) ==
    IF Len(path) < 2 THEN 0
    ELSE MinOf(EdgeCosts(G, path[1], path[2])) + PathCost(G, Tail(path))

RECURSIVE BellmanFord(_, _, _)
\* cheapest cost from the start to every node, by exhaustive relaxation
BellmanFord(G, d, rounds) ==
    IF rounds = 0 THEN d
    ELSE BellmanFord(G,
             [v \in 1..Len(G) |->
                 MinOf({d[v]} \cup {d[uk[1]] + G[uk[1]].edges[uk[2]].cost :
                                       uk \in {x \in EdgeEntries(G) : G[x[1]].edges[x[2]].to = v}})],
             rounds - 1)

CheapestCost(G, s, t) ==
    BellmanFord(G, [v \in 1..Len(G) |-> IF v = s THEN 0 ELSE Inf], Len(G))[t]

RECURSIVE ReachSet(_, _, _)
ReachSet(G, R, rounds) ==
    IF rounds = 0 THEN R
    ELSE ReachSet(G, R \cup {G[uk[1]].edges[uk[2]].to : uk \in {x \in EdgeEntries(G) : x[1] \in R}},
                  rounds - 1)

Reachable(G, s, t) == t \in ReachSet(G, {s}, Len(G))

-----------------------------------------------------------------------------
(* Claims on buildGraph and astar, under SpecRoute *)

\* C1: whatever the segments and the vehicle mode, the graph buildGraph returns
\* holds exactly two edges per coordinate pair of the segments that are not
\* blocked, each joining the two ends of such a pair at its cost: no edge comes
\* from a coordinate pair of a blocked segment.
C1_NoEdgeFromBlocked ==
    pc \in {"built", "located", "search", "done"} =>
        /\ Cardinality(EdgeEntries(graph))
               = 2 * Cardinality(CoordPairs(roadSegments, NotBlocked))
        /\ \A uk \in EdgeEntries(graph) :
               \E si \in CoordPairs(roadSegments, NotBlocked) :
                   EdgeOfPair(graph, roadSegments, tallVehicleRouting, uk, si)

\* a graph was built from segments of which some are blocked and some are not
C1_Witness ==
    /\ pc = "built"
    /\ CoordPairs(roadSegments, IsBlocked) # {}
    /\ EdgeEntries(graph) # {}

\* C2: in every graph buildGraph returns, there are as many edges from v to u
\* with cost c as there are from u to v with cost c, so the reverse of a path
\* is a path of the same cost.
C2_Undirected ==
    pc # "input" =>
        \A uk \in EdgeEntries(graph) :
            LET e == graph[uk[1]].edges[uk[2]] IN
            EdgeCount(graph, e.to, uk[1], e.cost) = EdgeCount(graph, uk[1], e.to, e.cost)

\* a graph with an edge between two different nodes was built
C2_Witness ==
    /\ pc = "built"
    /\ \E uk \in EdgeEntries(graph) : graph[uk[1]].edges[uk[2]].to # uk[1]

\* C3: in standard mode, when astar returns a path, the path is a walk of the
\* graph from start to goal whose edge costs sum to the goal's final g-score,
\* and no path between start and goal is cheaper.
C3_OptimalStandard ==
    (pc = "done" /\ ~tallVehicleRouting /\ ast.ret = "path") =>
        /\ IsWalk(graph, ast.path)
        /\ PathCost(graph, ast.path) = ast.gScore[goalIdx]
        /\ PathCost(graph, ast.path) = CheapestCost(graph, startIdx, goalIdx)

\* standard mode, astar returned a path around a direct edge that costs more
C3_Witness ==
    /\ pc = "done"
    /\ ~tallVehicleRouting
    /\ ast.ret = "path"
    /\ Len(ast.path) >= 3
    /\ EdgeCosts(graph, startIdx, goalIdx) # {}

\* C4: astar returns null exactly when the goal cannot be reached from the
\* start; it neither throws nor hangs, and a returned path is never empty.
C4_NullIffUnreachable ==
    pc = "done" =>
        /\ ast.ret \in {"path", "null"}
        /\ (ast.ret = "null") <=> ~Reachable(graph, startIdx, goalIdx)
        /\ ast.ret = "path" => Len(ast.path) >= 1

\* astar returned null between the two ends of a coordinate pair whose only
\* segments are blocked
C4_Witness ==
    /\ pc = "done"
    /\ ast.ret = "null"
    /\ \E si \in CoordPairs(roadSegments, IsBlocked) :
           LET p == roadSegments[si[1]].coordinates[si[2]]
               q == roadSegments[si[1]].coordinates[si[2] + 1]
           IN  /\ p = <<graph[startIdx].lat, graph[startIdx].lng>>
               /\ q = <<graph[goalIdx].lat, graph[goalIdx].lng>>

\* distance in metres from a query point to node i of the graph
NodeDistance(G, p, i) == haversineDistance(p, <<G[i].lat, G[i].lng>>)

\* C11: for a query point and a graph with nodes, findNearestNode returns the
\* index of a node no farther from the point than any node of the graph; it
\* returns -1 exactly when the graph has no nodes.
C11_NearestNode ==
    pc = "located" =>
        /\ (startIdx = NoNode) <=> (Len(graph) = 0)
        /\ startIdx # NoNode =>
               /\ startIdx \in 1..Len(graph)
               /\ \A j \in 1..Len(graph) :
                      NodeDistance(graph, startPoint, startIdx) <= NodeDistance(graph, startPoint, j)

\* the point is on no node, the nearest node is not the first one and some
\* node is farther away
C11_Witness ==
    /\ pc = "located"
    /\ startIdx # NoNode
    /\ startIdx > 1
    /\ NodeDistance(graph, startPoint, startIdx) > 0
    /\ \E j \in 1..Len(graph) :
           NodeDistance(graph, startPoint, j) > NodeDistance(graph, startPoint, startIdx)

\* C14: a path astar returns begins with the start index, ends with the goal
\* index, joins each consecutive pair of its nodes by an edge of the graph and
\* holds no node twice; when start and goal are the same node it is that node alone.
C14_PathShape ==
    (pc = "done" /\ ast.ret = "path") =>
        /\ Len(ast.path) >= 1
        /\ ast.path[1] = startIdx
        /\ ast.path[Len(ast.path)] = goalIdx
        /\ IsWalk(graph, ast.path)
        /\ \A i, j \in 1..Len(ast.path) : ast.path[i] = ast.path[j] => i = j
        /\ startIdx = goalIdx => ast.path = <<startIdx>>

\* astar returned a path over at least two edges
C14_Witness ==
    /\ pc = "done"
    /\ ast.ret = "path"
    /\ Len(ast.path) >= 3
    /\ startIdx # goalIdx

\* the multiplier of a status in a vehicle mode, doubled: 1.0 for passable,
\* 3.0 for restricted in standard mode, 0.5 for restricted in tall mode
Multiplier2(status, tall) ==
    CASE status = "passable"            -> 2
      [] status = "restricted" /\ ~tall -> 6
      [] status = "restricted" /\ tall  -> 1

\* C15: for every consecutive coordinate pair of a segment that is not
\* blocked, the graph has an edge in each direction between the pair's nodes
\* whose cost is the pair's haversine length times the multiplier of the
\* segment's status in the vehicle mode, and every edge of the graph has the
\* cost of such a pair.
C15_EdgeCost ==
    pc \in {"built", "located", "search", "done"} =>
        /\ \A si \in CoordPairs(roadSegments, NotBlocked) :
               LET seg == roadSegments[si[1]]
                   p   == seg.coordinates[si[2]]
                   q   == seg.coordinates[si[2] + 1]
                   u   == nodeIndex(graph, p)
                   v   == nodeIndex(graph, q)
                   c   == haversineDistance(p, q) * Multiplier2(seg.status, tallVehicleRouting)
               IN  /\ u # NoNode
                   /\ v # NoNode
                   /\ EdgeCount(graph, u, v, c) >= 1
                   /\ EdgeCount(graph, v, u, c) >= 1
        /\ \A uk \in EdgeEntries(graph) :
               graph[uk[1]].edges[uk[2]].cost \in
                   {haversineDistance(roadSegments[si[1]].coordinates[si[2]],
                                      roadSegments[si[1]].coordinates[si[2] + 1])
                        * Multiplier2(roadSegments[si[1]].status, tallVehicleRouting) :
                    si \in CoordPairs(roadSegments, NotBlocked)}

\* a graph built in tall mode from a restricted and a passable segment of
\* different lengths
C15_Witness ==
    /\ pc = "built"
    /\ tallVehicleRouting
    /\ \E s, t \in 1..Len(roadSegments) :
           /\ roadSegments[s].status = "restricted"
           /\ roadSegments[t].status = "passable"
           /\ haversineDistance(roadSegments[s].coordinates[1], roadSegments[s].coordinates[2])
                  # haversineDistance(roadSegments[t].coordinates[1], roadSegments[t].coordinates[2])

-----------------------------------------------------------------------------
(* Claims on the mounted component, under Spec *)

\* the segments are one restricted segment joining A and B directly (100 m) and
\* one passable detour A-C-D-B (250 m), and a route from A to B is asked for
C5_Scenario ==
    /\ Len(roadSegments) = 2
    /\ roadSegments[1].coordinates = <<PtA, PtB>>
    /\ roadSegments[1].status = "restricted"
    /\ roadSegments[2].coordinates = <<PtA, PtC, PtD, PtB>>
    /\ roadSegments[2].status = "passable"
    /\ startPoint = PtA
    /\ endPoint = PtB

\* C5: with one restricted segment of 100 m joining A and B directly and one
\* passable detour of 250 m, the route from A to B is the restricted segment
\* in tall mode (cost 50, the detour costing 250) and the detour in standard
\* mode (cost 250, the restricted segment being priced at 300).
C5_ModePreference ==
    C5_Scenario =>
        LET G == buildGraph(roadSegments, tallVehicleRouting)
            a == nodeIndex(G, PtA)
            b == nodeIndex(G, PtB)
            c == nodeIndex(G, PtC)
            d == nodeIndex(G, PtD)
        IN  IF tallVehicleRouting
            THEN /\ routeLayer = <<PtA, PtB>>
                 /\ routeInfo = <<100>>
                 /\ ast.gScore[goalIdx] = 2 * 50
                 /\ PathCost(G, <<a, c, d, b>>) = 2 * 250
            ELSE /\ routeLayer = <<PtA, PtC, PtD, PtB>>
                 /\ routeInfo = <<250>>
                 /\ ast.gScore[goalIdx] = 2 * 250
                 /\ EdgeCosts(G, a, b) = {2 * 300}

\* the scenario in tall mode, the restricted segment drawn as the route
C5_Witness ==
    /\ C5_Scenario
    /\ tallVehicleRouting
    /\ routeLayer = <<PtA, PtB>>

\* C6: after a local edit that sets segment X to status s, X has status s for
\* as long as no other local edit of X was made and less than the suppression
\* window has passed since that edit, whatever the feed delivers.
C6_LocalEditHolds ==
    \A e \in lastEdit :
        \A i \in 1..Len(roadSegments) :
            roadSegments[i].id = e.id => roadSegments[i].status = e.status

\* C7: in the graph the routing effect builds, in both vehicle modes, every
\* segment that is passable or restricted has an edge for its first
\* coordinate pair, at the cost of its status in that mode.
C7_NonBlockedInGraph ==
    (startPoint # <<>> /\ endPoint # <<>> /\ Len(roadSegments) > 0) =>
        \A s \in 1..Len(roadSegments) :
            (roadSegments[s].status \in {"passable", "restricted"}
                 /\ Len(roadSegments[s].coordinates) >= 2) =>
                \E uk \in EdgeEntries(graph) :
                    EdgeOfPair(graph, roadSegments, tallVehicleRouting, uk, <<s, 1>>)

\* C8: in every state the status of every segment is passable, restricted or blocked.
C8_StatusEnumerated ==
    \A i \in 1..Len(roadSegments) : roadSegments[i].status \in Status

-----------------------------------------------------------------------------
(* Claims on segment assembly, under SpecAssembly *)

\* C9: a second assembly of the same feature collection gives the ids and the
\* coordinate sequence per id that the assembly before it gave, whatever
\* statuses were stored for the segments at either assembly.
C9_SameIdsAndCoordinates ==
    (pc = "assembled" /\ mounts >= 2) => IdsAndCoordinates(roadSegments) = previousRun

\* a second assembly, a status being stored, of a collection in which a line is split
C9_Witness ==
    /\ pc = "assembled"
    /\ mounts >= 2
    /\ \E i \in 1..Len(roadSegments) : roadSegments[i].status # "passable"
    /\ Len(roadSegments) > Len(roadFeaturesOf(features))

\* C10: the segments assembly sets are such that a segment whose id has a
\* stored status has that status, and every other segment is passable.
C10_PriorStatusApplied ==
    [][pc = "fetched" =>
           \A i \in 1..Len(roadSegments') :
               roadSegments'[i].status =
                   (IF roadSegments'[i].id \in DOMAIN latestStatusMap
                    THEN latestStatusMap[roadSegments'[i].id]
                    ELSE "passable")]_vars

-----------------------------------------------------------------------------
(* Claims on the feed and the route result, under Spec *)

\* C12: a failed status fetch leaves every segment with the status it had,
\* leaves the route result as it was, and the routing effect run on the
\* segments after the failure ends with a path or with no route, not with an
\* exception.
C12_FetchFailureKeepsSegments ==
    [][FetchFails =>
           /\ roadSegments' = roadSegments
           /\ routeInfo' = routeInfo
           /\ routeLayer' = routeLayer
           /\ routingEffect(roadSegments', tallVehicleRouting', startPoint', endPoint',
                            noRoute).ast.ret \in {"idle", "path", "null"}]_vars

\* the feed is empty after having held updates (a timeout it started is still
\* pending), a segment is not passable and a route is drawn
C12_Witness ==
    /\ roadStatusUpdates = <<>>
    /\ timers # {}
    /\ \E i \in 1..Len(roadSegments) : roadSegments[i].status \in {"restricted", "blocked"}
    /\ routeLayer # <<>>


\* the routing effect ran on both points and a lookup gave -1
LookupFailure ==
    /\ pc = "routed"
    /\ startIdx = NoNode \/ goalIdx = NoNode

\* the routing effect ran on both points and astar gave null
NoRouteOutcome ==
    /\ pc = "routed"
    /\ startIdx # NoNode /\ goalIdx # NoNode
    /\ ast.ret = "null"

\* C13: a routing request with a point that has no nearest node ends without
\* astar being called and without the no-route notification, which the no-route
\* outcome always shows; the reports of the two outcomes differ and neither
\* outcome is an exception
C13_LookupFailureDistinct ==
    /\ LookupFailure =>
           /\ ast = astarIdle
           /\ routeReport.warn = "Could not find nearest nodes for routing"
           /\ routeReport.notification = ""
    /\ NoRouteOutcome =>
           /\ routeReport.warn = "No route found"
           /\ routeReport.notification = "No available route found"
           /\ routeInfo = <<>>
    /\ pc = "routed" => ast.ret \in {"idle", "path", "null"}

C13_Witness ==
    /\ LookupFailure
    /\ graph = <<>>
    /\ routeReport.notification = ""

\* the no-route outcome the lookup failure is compared with
C13_NoRouteReached == NoRouteOutcome /\ routeReport.notification # ""


\* a step in which the real-time hook sets roadStatusUpdates, to a snapshot or
\* to the empty list, and the effects settle
StatusesDelivered ==
    /\ UNCHANGED <<tallVehicleRouting, pc, asmVars, locallyUpdatedSegments, lastEdit,
                   startPoint, endPoint>>
    /\ Settle(runEffects(roadSegments, roadStatusUpdates', locallyUpdatedSegments, timers,
                         tallVehicleRouting, startPoint, endPoint, routeState, TRUE, FALSE))

\* every update of the snapshot carries the status its segment has
SameStatusSnapshot(updates, segs) ==
    /\ Len(updates) > 0
    /\ \E k \in 1..Len(updates), i \in 1..Len(segs) : segs[i].id = updates[k].segment_id
    /\ \A k \in 1..Len(updates), i \in 1..Len(segs) :
           segs[i].id = updates[k].segment_id => segs[i].status = updates[k].status

\* the state in which one more delivery of the snapshot held leaves the component
AfterSameDelivery ==
    runEffects(roadSegments, roadStatusUpdates, locallyUpdatedSegments, timers,
               tallVehicleRouting, startPoint, endPoint, routeState, TRUE, FALSE)

C17_PendingExpires ==
    \A id \in locallyUpdatedSegments :
        \/ \E e \in lastEdit : e.id = id
        \/ \E t \in timers : t[1] = id /\ t[2] <= 0


\* positions of the not-pending segments the snapshot has a different status for
ChangedByFeed(updates, segs, pending) ==
    {i \in 1..Len(segs) : /\ segs[i].id \notin pending
                          /\ latestStatusOf(updates, segs[i].id) \notin {"", segs[i].status}}

\* C18: when a delivered snapshot has, for a segment that is not pending, a
\* status other than the segment's, the segment takes the incoming status, the
\* segment set is replaced, and the route state is the one the routing effect
\* computes from the new segment set
C18_FeedApplied ==
    [][(StatusesDelivered /\ ChangedByFeed(roadStatusUpdates', roadSegments, locallyUpdatedSegments) # {}) =>
           /\ \A i \in ChangedByFeed(roadStatusUpdates', roadSegments, locallyUpdatedSegments) :
                  roadSegments'[i].status = latestStatusOf(roadStatusUpdates', roadSegments[i].id)
           /\ roadSegments' # roadSegments
           /\ routeState' = routingEffect(roadSegments', tallVehicleRouting', startPoint',
                                          endPoint', routeState)]_vars

C18_Witness ==
    /\ Len(roadStatusUpdates) > 0
    /\ Len(roadSegments) > 0
    /\ locallyUpdatedSegments = {}
    /\ timers = {}
    /\ roadStatusUpdates[1].segment_id = roadSegments[1].id
    /\ roadStatusUpdates[1].status = "blocked"
    /\ roadSegments[1].status = "blocked"
    /\ routeLayer = <<PtA, PtC, PtD, PtB>>


\* C19: once the routing effect has run on both points and the segments, the
\* route info and the drawn route are those of that computation: its route
\* when it found one, none when it ended in no route or in a failed lookup
C19_LatestRouteHeld ==
    (pc = "assembled" /\ startPoint # <<>> /\ endPoint # <<>> /\ Len(roadSegments) > 0) =>
        LET latest == routingEffect(roadSegments, tallVehicleRouting, startPoint, endPoint,
                                    noRoute)
        IN  /\ routeInfo = latest.routeInfo
            /\ routeLayer = latest.routeLayer


-----------------------------------------------------------------------------
(* Claims on the assembled segments, under SpecAssembly *)

\* the features with at least two coordinates
longFeatures(fs) == SelectSeq(fs, LAMBDA f : Len(f.coordinates) >= 2)

\* C20: the assembled segments are those of the features with at least two
\* coordinates, and every one of them has at least two coordinates
C20_ShortFeaturesSkipped ==
    pc = "assembled" =>
        /\ \A i \in 1..Len(roadSegments) : Len(roadSegments[i].coordinates) >= 2
        /\ IdsAndCoordinates(roadSegments)
               = IdsAndCoordinates(initializeSegments(longFeatures(features), <<>>))


-----------------------------------------------------------------------------
(* The update log: logUpdate and getLatestStatusBySegment over the table
   road_status_updates and the localStorage fallback *)

\* number of logUpdate calls
MaxLogs == 2

\* the segments status updates are logged for
LoggedSegments == {<<"way/1", "seg", 0>>, <<"way/2", "seg", 0>>}

\* what the RPC log_road_status_update comes back with: the row inserted, an
\* error result, a rejected promise, or the function's JSON refusal
LogOutcomes == {"inserted", "error", "exception", "refused"}

\* what the RPC get_latest_road_status comes back with
FetchOutcomes == {"data", "error", "exception"}

\* the component and its effects stay as constructed
ComponentIdle ==
    /\ roadSegments = <<>>
    /\ tallVehicleRouting = FALSE
    /\ pc = "idle"
    /\ graph = <<>>
    /\ startIdx = NoNode
    /\ goalIdx = NoNode
    /\ ast = astarIdle
    /\ features = <<>>
    /\ latestStatusMap = <<>>
    /\ mounts = 0
    /\ previousRun = {}
    /\ MapContainerInit

\* the index of the entry of a sequence of updates that a scan keeps for a
\* segment: the first one whose updated_at no later entry of the scan exceeds
LastGreatest(updates, id) ==
    LET at == {i \in 1..Len(updates) : updates[i].segment_id = id} IN
    CHOOSE i \in at : /\ \A j \in at : updates[j].updated_at <= updates[i].updated_at
                      /\ \A j \in at : updates[j].updated_at = updates[i].updated_at => i <= j

\* the segment ids of a sequence of updates
IdsOf(updates) == {updates[i].segment_id : i \in 1..Len(updates)}

\* get_latest_road_status: DISTINCT ON (segment_id) ... ORDER BY segment_id, updated_at DESC
get_latest_road_status(rows) ==
    [id \in IdsOf(rows) |-> rows[LastGreatest(rows, id)]]

\* getLatestStatusBySegmentLocal: the stored update of the greatest updated_at per segment
getLatestStatusBySegmentLocal(stored) ==
    [id \in IdsOf(stored) |-> stored[LastGreatest(stored, id)]]

\* Object.assign(result, localUpdates)
ObjectAssign(result, localUpdates) ==
    [id \in DOMAIN result \cup DOMAIN localUpdates |->
        IF id \in DOMAIN localUpdates THEN localUpdates[id] ELSE result[id]]

\* getLatestStatusBySegment; data is what the RPC returned, <<>> without data
getLatestStatusBySegment(data, stored) ==
    ObjectAssign(data, getLatestStatusBySegmentLocal(stored))

InitLog ==
    /\ ComponentIdle
    /\ SideInit

\* logUpdate(segmentId, status, roadName)
LogUpdate ==
    /\ Cardinality(logged) < MaxLogs
    /\ \E segmentId \in LoggedSegments, status \in Status, outcome \in LogOutcomes :
           LET updateData == [segment_id |-> segmentId, status |-> status, updated_at |-> clock]
           IN  /\ logged' = logged \cup {updateData}
               /\ table' = IF outcome = "inserted" THEN Append(table, updateData) ELSE table
               /\ localStore' = IF outcome \in {"error", "exception"}
                                THEN Append(localStore, updateData) ELSE localStore
    /\ clock' = clock + 1
    /\ logPc' = "logged"
    /\ UNCHANGED <<besideLog, fetched, latestStatuses>>

\* getLatestStatusBySegment()
GetLatestStatusBySegment ==
    /\ logPc # "got"
    /\ \E outcome \in FetchOutcomes :
           LET data == IF outcome = "data" THEN get_latest_road_status(table) ELSE <<>>
           IN  /\ fetched' = data
               /\ latestStatuses' = getLatestStatusBySegment(data, localStore)
    /\ logPc' = "got"
    /\ UNCHANGED <<besideLog, table, localStore, clock, logged>>

NextLog == LogUpdate \/ GetLatestStatusBySegment

SpecLog == InitLog /\ [][NextLog]_vars

-----------------------------------------------------------------------------
(* Claims on the update log, under SpecLog *)

\* the updates known for a segment when getLatestStatusBySegment returned:
\* those the database returned and those in the local store
KnownUpdates(id) ==
    {fetched[i] : i \in {j \in DOMAIN fetched : j = id}}
        \cup {localStore[i] : i \in {j \in 1..Len(localStore) : localStore[j].segment_id = id}}

\* C21: what getLatestStatusBySegment returns has an entry for every segment
\* with a known update, and the entry of a segment is a known update of it with
\* the greatest updated_at
C21_LatestOfBoth ==
    logPc = "got" =>
        /\ DOMAIN latestStatuses = {id \in LoggedSegments : KnownUpdates(id) # {}}
        /\ \A id \in DOMAIN latestStatuses :
               /\ latestStatuses[id] \in KnownUpdates(id)
               /\ \A u \in KnownUpdates(id) : u.updated_at <= latestStatuses[id].updated_at

\* C28: every update logUpdate was called with is a row of the table or an
\* entry of the local store
C28_LoggedSomewhere ==
    \A u \in logged :
        \/ \E i \in 1..Len(table) : table[i] = u
        \/ \E i \in 1..Len(localStore) : localStore[i] = u


-----------------------------------------------------------------------------
(* splitLineAtIntersections on drawn lines and intersection points *)

\* number of intersection points attributed to the line
MaxIntersections == 2

\* the lines split: the roads of the pool, and the closed way A-C-D-A
SplitLines == {RoadPool[k] : k \in 1..7} \cup {<<PtA, PtC, PtD, PtA>>}

\* a whole-cell point as an intersection point x/d, y/d
AtPoint(p) == [x |-> p[1], y |-> p[2], d |-> 1]

\* intersection points: the four corners, and the points a road crossing the
\* diagonal A-D finds 2/5 of a cell from A and 2/5 of a cell from D
IntersectionPoints ==
    {AtPoint(PtA), AtPoint(PtB), AtPoint(PtC), AtPoint(PtD),
     [x |-> 8, y |-> 6, d |-> 25], [x |-> 92, y |-> 69, d |-> 25]}

InitSplit ==
    /\ ComponentIdle
    /\ UpdateLogInit
    /\ HookIdle
    /\ AuthIdle
    /\ splitLine \in SplitLines
    /\ splitIntersections \in
           SeqsUpTo({pt \in IntersectionPoints : nearVertex(splitLine, pt)}, MaxIntersections)
    /\ splitSegments = <<>>
    /\ splitDone = FALSE

\* splitLineAtIntersections(line, lineIntersections, lineId)
SplitCall ==
    /\ ~splitDone
    /\ splitSegments' = splitLineAtIntersections(splitLine, splitIntersections, "way/1")
    /\ splitDone' = TRUE
    /\ UNCHANGED <<besideSplit, splitLine, splitIntersections>>

NextSplit == SplitCall

SpecSplit == InitSplit /\ [][NextSplit]_vars

-----------------------------------------------------------------------------
(* Claims on splitLineAtIntersections, under SpecSplit *)

RECURSIVE JoinedFrom(_, _)
\* the coordinates of segments k and onwards, a shared end taken once
JoinedFrom(segs, k) ==
    IF k > Len(segs) THEN <<>>
    ELSE IF k = 1 THEN segs[1].coordinates \o JoinedFrom(segs, 2)
    ELSE Tail(segs[k].coordinates) \o JoinedFrom(segs, k + 1)

\* C22: the segments of a line of two or more coordinates are contiguous
\* slices of it in order: each has two or more coordinates, each starts at the
\* coordinate the one before ends at, and joined end to end they are the line
C22_ContiguousSlices ==
    (splitDone /\ Len(splitLine) >= 2) =>
        /\ Len(splitSegments) >= 1
        /\ \A k \in 1..Len(splitSegments) : Len(splitSegments[k].coordinates) >= 2
        /\ \A k \in 2..Len(splitSegments) :
               splitSegments[k].coordinates[1]
                   = splitSegments[k - 1].coordinates[Len(splitSegments[k - 1].coordinates)]
        /\ JoinedFrom(splitSegments, 1) = splitLine


-----------------------------------------------------------------------------
(* Claims on astar in tall mode and on its termination, under SpecRoute *)

\* astar returned a path that costs more than the cheapest one
Suboptimal ==
    /\ pc = "done"
    /\ ast.ret = "path"
    /\ PathCost(graph, ast.path) > CheapestCost(graph, startIdx, goalIdx)

\* C23: astar returns a path that costs more than the cheapest path only in
\* tall mode and only on a graph built from segments of which one is
\* restricted; the witness is such a run
C23_SuboptimalOnlyTallRestricted ==
    Suboptimal =>
        /\ tallVehicleRouting
        /\ \E i \in 1..Len(roadSegments) : roadSegments[i].status = "restricted"

C23_Witness ==
    /\ Suboptimal
    /\ tallVehicleRouting
    /\ IsWalk(graph, ast.path)
    /\ \E i \in 1..Len(roadSegments) : roadSegments[i].status = "restricted"


\* C24: every call of astar on a built graph, for every start and goal node of
\* it, comes to its return, with a path or with null
C24_AstarTerminates ==
    (pc = "search") ~> (pc = "done" /\ ast.ret \in {"path", "null"})

\* astar returned null in tall mode on a graph with a zero-cost self-loop and
\* an edge of a restricted segment
C24_Witness ==
    /\ pc = "done"
    /\ ast.ret = "null"
    /\ tallVehicleRouting
    /\ \E uk \in EdgeEntries(graph) :
           /\ graph[uk[1]].edges[uk[2]].to = uk[1]
           /\ graph[uk[1]].edges[uk[2]].cost = 0
    /\ \E i \in 1..Len(roadSegments) : roadSegments[i].status = "restricted"


-----------------------------------------------------------------------------
(* useRealTimeRoadStatus: the subscription, its reconnection, the periodic
   refresh and the status fetches *)

\* number of channels the hook creates
MaxChannels == 3

\* number of reconnect timeouts the hook sets
MaxTimeouts == 2

\* number of status fetches the hook issues
MaxFetches == 3

\* the status events the subscribe callback tells apart
SubscriptionStatus == {"SUBSCRIBED", "CHANNEL_ERROR", "CLOSED", "TIMED_OUT"}

\* rows get_latest_road_status returns while the database holds status st
StatusRows(st) == <<[segment_id |-> <<"way/1", "seg", 0>>, status |-> st]>>

\* subscription.unsubscribe() on the channel the effect holds, if any
unsubscribe(held, live) == IF held # 0 THEN live \ {held} ELSE live

\* fetchRoadStatus up to the await: the request leaves
fetchIssued(flying, n) == flying \cup {[seq |-> n + 1, data |-> StatusRows(dbStatus)]}

\* the hook after its effect has run: the initial fetch is on its way, the
\* first channel is subscribed, the interval is set
InitHook ==
    /\ ComponentIdle
    /\ UpdateLogInit
    /\ SplitIdle
    /\ AuthIdle
    /\ isComponentMounted = TRUE
    /\ subscription = 1
    /\ liveChannels = {1}
    /\ reconnectTimeoutId = 0
    /\ pendingReconnects = {}
    /\ intervalId = TRUE
    /\ made = [channels |-> 1, timeouts |-> 0, fetches |-> 1]
    /\ dbStatus \in Status
    /\ inFlight = {[seq |-> 1, data |-> StatusRows(dbStatus)]}
    /\ latestIssued = <<>>

\* the subscribe callback of a live channel is called with SUBSCRIBED
Subscribed ==
    /\ isComponentMounted
    /\ liveChannels # {}
    /\ pendingReconnects' = pendingReconnects \ {reconnectTimeoutId}
    /\ reconnectTimeoutId' = 0
    /\ UNCHANGED <<besideHook, roadStatusUpdates, isComponentMounted, subscription,
                   liveChannels, intervalId, made, inFlight, dbStatus, latestIssued>>

\* the subscribe callback of a live channel is called with CHANNEL_ERROR or CLOSED
ChannelErrorOrClosed ==
    /\ isComponentMounted
    /\ liveChannels # {}
    /\ made.timeouts < MaxTimeouts
    /\ made' = [made EXCEPT !.timeouts = @ + 1]
    /\ reconnectTimeoutId' = made.timeouts + 1
    /\ pendingReconnects' = pendingReconnects \cup {made.timeouts + 1}
    /\ UNCHANGED <<besideHook, roadStatusUpdates, isComponentMounted, subscription,
                   liveChannels, intervalId, inFlight, dbStatus, latestIssued>>

\* the subscribe callback of a live channel is called with TIMED_OUT
TimedOut ==
    /\ isComponentMounted
    /\ liveChannels # {}
    /\ made.channels < MaxChannels
    /\ made' = [made EXCEPT !.channels = @ + 1]
    /\ subscription' = made.channels + 1
    /\ liveChannels' = unsubscribe(subscription, liveChannels) \cup {made.channels + 1}
    /\ UNCHANGED <<besideHook, roadStatusUpdates, isComponentMounted, reconnectTimeoutId,
                   pendingReconnects, intervalId, inFlight, dbStatus, latestIssued>>

\* a reconnect timeout runs out
ReconnectFires ==
    /\ \E t \in pendingReconnects :
           /\ pendingReconnects' = pendingReconnects \ {t}
           /\ IF isComponentMounted
              THEN /\ made.channels < MaxChannels
                   /\ made' = [made EXCEPT !.channels = @ + 1]
                   /\ subscription' = made.channels + 1
                   /\ liveChannels' = unsubscribe(subscription, liveChannels)
                                          \cup {made.channels + 1}
              ELSE UNCHANGED <<made, subscription, liveChannels>>
    /\ UNCHANGED <<besideHook, roadStatusUpdates, isComponentMounted, reconnectTimeoutId,
                   intervalId, inFlight, dbStatus, latestIssued>>

\* a row of road_status_updates changes; a live channel passes the change to
\* the postgres_changes handler, which fetches
PostgresChange ==
    /\ made.fetches < MaxFetches
    /\ \E st \in Status \ {dbStatus} :
           /\ dbStatus' = st
           /\ IF isComponentMounted /\ liveChannels # {}
              THEN /\ inFlight' = inFlight \cup {[seq |-> made.fetches + 1,
                                                  data |-> StatusRows(st)]}
                   /\ made' = [made EXCEPT !.fetches = @ + 1]
                   /\ latestIssued' = <<>>
              ELSE UNCHANGED <<inFlight, made, latestIssued>>
    /\ UNCHANGED <<besideHook, roadStatusUpdates, isComponentMounted, subscription,
                   liveChannels, reconnectTimeoutId, pendingReconnects, intervalId>>

\* the 30 s interval fires, or refreshRoadStatus is called
PeriodicOrManualRefresh ==
    /\ isComponentMounted
    /\ made.fetches < MaxFetches
    /\ inFlight' = fetchIssued(inFlight, made.fetches)
    /\ made' = [made EXCEPT !.fetches = @ + 1]
    /\ latestIssued' = <<>>
    /\ UNCHANGED <<besideHook, roadStatusUpdates, isComponentMounted, subscription,
                   liveChannels, reconnectTimeoutId, pendingReconnects, intervalId, dbStatus>>

\* the rest of fetchRoadStatus: the RPC answers with data or with an error
FetchAnswered ==
    /\ \E f \in inFlight, ok \in BOOLEAN :
           LET answer == IF ok THEN f.data ELSE <<>> IN
           /\ inFlight' = inFlight \ {f}
           /\ roadStatusUpdates' = IF isComponentMounted THEN answer ELSE roadStatusUpdates
           /\ latestIssued' = IF f.seq = made.fetches THEN <<answer>> ELSE latestIssued
    /\ UNCHANGED <<besideHook, isComponentMounted, subscription, liveChannels,
                   reconnectTimeoutId, pendingReconnects, intervalId, made, dbStatus>>

\* the cleanup of the effect
HookUnmount ==
    /\ isComponentMounted
    /\ isComponentMounted' = FALSE
    /\ liveChannels' = unsubscribe(subscription, liveChannels)
    /\ intervalId' = FALSE
    /\ pendingReconnects' = pendingReconnects \ {reconnectTimeoutId}
    /\ UNCHANGED <<besideHook, roadStatusUpdates, subscription, reconnectTimeoutId, made,
                   inFlight, dbStatus, latestIssued>>

NextHook ==
    \/ Subscribed
    \/ ChannelErrorOrClosed
    \/ TimedOut
    \/ ReconnectFires
    \/ PostgresChange
    \/ PeriodicOrManualRefresh
    \/ FetchAnswered
    \/ HookUnmount

SpecHook == InitHook /\ [][NextHook]_vars

-----------------------------------------------------------------------------
(* Claims on the real-time hook, under SpecHook *)

\* C25: the hook has at most one live channel and at most one pending
\* reconnect timeout; once unmounted it has no live channel, no interval and
\* no pending reconnect timeout
C25_OneSubscriptionOneTimer ==
    /\ Cardinality(liveChannels) <= 1
    /\ Cardinality(pendingReconnects) <= 1
    /\ ~isComponentMounted =>
           /\ liveChannels = {}
           /\ ~intervalId
           /\ pendingReconnects = {}

\* C30: when no fetch is on its way and the hook is mounted, roadStatusUpdates
\* is the answer to the most recently issued fetch
C30_LatestFetchWins ==
    (isComponentMounted /\ inFlight = {} /\ latestIssued # <<>>) =>
        roadStatusUpdates = latestIssued[1]


-----------------------------------------------------------------------------
(* UserProvider: sessions, the inactivity monitor and signing out.  Time is
   counted in units of 5 minutes; the access token is taken as not expired. *)

\* 30 minutes
INACTIVITY_TIMEOUT == 6

\* 5 minutes
SESSION_CHECK_INTERVAL == 1

\* 5 minutes before logout
warningTime == 1

timeUntilWarning == INACTIVITY_TIMEOUT - warningTime

\* number of fetchProfile calls waiting at once
MaxProfileFetches == 1

UserRoles == {"admin", "responder"}

\* the sessions an auth-state change carries: null or a signed-in user
AuthSessions == {<<>>, <<"user">>}

isSessionValid == session # <<>> /\ lastActivity < INACTIVITY_TIMEOUT

\* the guard of logout and forceLogout, with the guard left out
alreadyLoggingOut_never == FALSE

\* the guard of logout and forceLogout
alreadyLoggingOut == isLoggingOut

\* time passing for a counter that stops at the timeout
Aged(n) == IF n < INACTIVITY_TIMEOUT THEN n + 1 ELSE n

\* logout and forceLogout from the guard to the await of signOut; only
\* logout calls updateActivity
SignOutStarts(byUser) ==
    /\ isLoggingOut' = TRUE
    /\ lastActivity' = IF byUser THEN 0 ELSE lastActivity
    /\ inactivityTimeoutRef' = FALSE
    /\ warnings' = {}
    /\ checks' = {}
    /\ signOuts' = signOuts + 1

InitAuth ==
    /\ ComponentIdle
    /\ UpdateLogInit
    /\ SplitIdle
    /\ HookIdle
    /\ AuthIdle

\* 5 minutes pass; a timeout that has run out fires before more time passes
AuthTick ==
    /\ 0 \notin (warnings \cup finals \cup checks)
    /\ warnings' = {t - 1 : t \in warnings}
    /\ finals' = {t - 1 : t \in finals}
    /\ checks' = {t - 1 : t \in checks}
    /\ lastActivity' = Aged(lastActivity)
    /\ sinceActivity' = Aged(sinceActivity)
    /\ authStep' = "tick"
    /\ UNCHANGED <<besideAuth, initializing, session, profile, isLoggingOut, inactivityTimeoutRef,
                   signOuts, profileFetches, forcedIdle>>

\* a user activity event; handleActivity listens while a session is set
UserActivity ==
    /\ sinceActivity' = 0
    /\ authStep' = "activity"
    /\ IF session # <<>>
       THEN /\ lastActivity' = 0
            /\ warnings' = IF inactivityTimeoutRef THEN {timeUntilWarning} ELSE warnings
       ELSE UNCHANGED <<lastActivity, warnings>>
    /\ UNCHANGED <<besideAuth, initializing, session, profile, isLoggingOut, inactivityTimeoutRef,
                   finals, checks, signOuts, profileFetches, forcedIdle>>

\* the warning timeout runs out and sets the final timeout
WarningFires ==
    /\ 0 \in warnings
    /\ warnings' = warnings \ {0}
    /\ finals' = finals \cup {warningTime}
    /\ authStep' = "warning"
    /\ UNCHANGED <<besideAuth, initializing, session, profile, isLoggingOut, lastActivity,
                   inactivityTimeoutRef, checks, signOuts, profileFetches,
                   sinceActivity, forcedIdle>>

\* a final timeout runs out and calls forceLogout
FinalFires ==
    /\ 0 \in finals
    /\ finals' = finals \ {0}
    /\ authStep' = "forceLogout"
    /\ IF alreadyLoggingOut
       THEN UNCHANGED <<isLoggingOut, lastActivity, inactivityTimeoutRef, warnings,
                        checks, signOuts, forcedIdle>>
       ELSE /\ SignOutStarts(FALSE)
            /\ forcedIdle' = IF session # <<>> THEN <<sinceActivity>> ELSE forcedIdle
    /\ UNCHANGED <<besideAuth, initializing, session, profile, profileFetches, sinceActivity>>

\* the session check of the interval
SessionCheckFires ==
    /\ 0 \in checks
    /\ IF isSessionValid
       THEN /\ checks' = {SESSION_CHECK_INTERVAL}
            /\ authStep' = "check"
            /\ UNCHANGED <<isLoggingOut, lastActivity, inactivityTimeoutRef, warnings,
                           signOuts, forcedIdle>>
       ELSE /\ authStep' = "forceLogout"
            /\ IF alreadyLoggingOut
               THEN /\ checks' = {SESSION_CHECK_INTERVAL}
                    /\ UNCHANGED <<isLoggingOut, lastActivity, inactivityTimeoutRef,
                                   warnings, signOuts, forcedIdle>>
               ELSE /\ SignOutStarts(FALSE)
                    /\ forcedIdle' = <<sinceActivity>>
    /\ UNCHANGED <<besideAuth, initializing, session, profile, finals, profileFetches, sinceActivity>>

\* the effect on the session: setupInactivityMonitoring runs when setSession
\* has changed the session
MonitoringSetUp(s) ==
    IF s = <<>> /\ session = <<>>
    THEN UNCHANGED <<warnings, checks, inactivityTimeoutRef>>
    ELSE /\ warnings' = IF s # <<>> THEN {timeUntilWarning} ELSE {}
         /\ checks' = IF s # <<>> THEN {SESSION_CHECK_INTERVAL} ELSE {}
         /\ inactivityTimeoutRef' = (s # <<>> \/ inactivityTimeoutRef)

\* initializeAuth after getSession has answered; with a mock session in
\* localStorage it has returned before, without listening for auth changes
GetSessionAnswered ==
    /\ initializing = "getSession"
    /\ authStep' = "getSession"
    /\ \E s \in AuthSessions, meta \in BOOLEAN, mock \in BOOLEAN :
           IF isLoggingOut
           THEN /\ initializing' = "returned"
                /\ UNCHANGED <<session, profile, profileFetches, warnings, checks,
                               inactivityTimeoutRef>>
           ELSE IF mock
           THEN /\ s # <<>> /\ meta
                /\ session' = s
                /\ MonitoringSetUp(s)
                /\ \E r \in UserRoles : profile' = <<r>>
                /\ initializing' = "returned"
                /\ UNCHANGED profileFetches
           ELSE /\ session' = s
                /\ MonitoringSetUp(s)
                /\ IF s = <<>>
                   THEN initializing' = "listening" /\ UNCHANGED <<profile, profileFetches>>
                   ELSE IF meta
                        THEN /\ \E r \in UserRoles : profile' = <<r>>
                             /\ initializing' = "listening"
                             /\ UNCHANGED profileFetches
                        ELSE /\ profileFetches' = profileFetches + 1
                             /\ initializing' = "fetchProfile"
                             /\ UNCHANGED profile
    /\ UNCHANGED <<besideAuth, isLoggingOut, lastActivity, finals, signOuts,
                   sinceActivity, forcedIdle>>

\* the onAuthStateChange callback, with the effect on the session; the role
\* is in the user metadata or fetched
AuthStateChange ==
    /\ initializing = "listening"
    /\ authStep' = "authStateChange"
    /\ \E s \in AuthSessions, meta \in BOOLEAN :
           IF isLoggingOut
           THEN UNCHANGED <<session, profile, profileFetches, warnings, checks,
                            inactivityTimeoutRef>>
           ELSE /\ meta \/ s = <<>> \/ profileFetches < MaxProfileFetches
                /\ session' = s
                /\ MonitoringSetUp(s)
                /\ IF s = <<>>
                   THEN profile' = <<>> /\ UNCHANGED profileFetches
                   ELSE IF meta
                        THEN (\E r \in UserRoles : profile' = <<r>>)
                                 /\ UNCHANGED profileFetches
                        ELSE profileFetches' = profileFetches + 1 /\ UNCHANGED profile
    /\ UNCHANGED <<besideAuth, isLoggingOut, initializing, lastActivity, finals,
                   signOuts, sinceActivity, forcedIdle>>

\* the rest of fetchProfile: user_profiles answers, or the default role is
\* taken; initializeAuth then goes on to listen for auth changes
ProfileAnswered ==
    /\ profileFetches > 0
    /\ profileFetches' = profileFetches - 1
    /\ \E r \in UserRoles : profile' = <<r>>
    /\ initializing' = IF initializing = "fetchProfile" THEN "listening" ELSE initializing
    /\ authStep' = "profile"
    /\ UNCHANGED <<besideAuth, session, isLoggingOut, lastActivity, inactivityTimeoutRef,
                   warnings, finals, checks, signOuts, sinceActivity, forcedIdle>>

\* logout is called
LogoutCall ==
    /\ authStep' = "logout"
    /\ IF alreadyLoggingOut
       THEN UNCHANGED <<isLoggingOut, lastActivity, inactivityTimeoutRef, warnings,
                        checks, signOuts>>
       ELSE SignOutStarts(TRUE)
    /\ UNCHANGED <<besideAuth, initializing, session, profile, finals, profileFetches, sinceActivity,
                   forcedIdle>>

\* the rest of logout and forceLogout: signOut answers or throws, session and
\* profile are cleared and the page is replaced by /public, where the
\* provider starts anew
SignOutAnswered ==
    /\ signOuts > 0
    /\ signOuts' = signOuts - 1
    /\ session' = <<>>
    /\ profile' = <<>>
    /\ isLoggingOut' = FALSE
    /\ lastActivity' = 0
    /\ inactivityTimeoutRef' = FALSE
    /\ warnings' = {}
    /\ finals' = {}
    /\ checks' = {}
    /\ profileFetches' = 0
    /\ initializing' = "getSession"
    /\ authStep' = "signedOut"
    /\ UNCHANGED <<besideAuth, sinceActivity, forcedIdle>>

NextAuth ==
    \/ GetSessionAnswered
    \/ AuthTick
    \/ UserActivity
    \/ WarningFires
    \/ FinalFires
    \/ SessionCheckFires
    \/ AuthStateChange
    \/ ProfileAnswered
    \/ LogoutCall
    \/ SignOutAnswered

SpecAuth == InitAuth /\ [][NextAuth]_vars

-----------------------------------------------------------------------------
(* Claims on the UserProvider, under SpecAuth *)

\* C26: when the inactivity monitor forces the logout of a signed-in user, no
\* user activity event has occurred during the 30 minutes before
C26_ForcedOnlyAfterInactivity ==
    forcedIdle # <<>> => forcedIdle[1] >= INACTIVITY_TIMEOUT

\* C27: at most one sign-out sequence runs at a time; a call of logout or
\* forceLogout while one runs changes nothing; an auth-state change delivered
\* while one runs leaves the session as it is; when the sequence completes,
\* session and profile are null
C27_OneSignOut ==
    [][ /\ signOuts' <= 1
        /\ (authStep' \in {"logout", "forceLogout"} /\ signOuts > 0) =>
               UNCHANGED <<session, profile, isLoggingOut, lastActivity,
                           inactivityTimeoutRef, warnings, checks, signOuts,
                           profileFetches>>
        /\ (authStep' = "authStateChange" /\ signOuts > 0) =>
               UNCHANGED <<session, profile>>
        /\ (signOuts > 0 /\ signOuts' < signOuts) =>
               (session' = <<>> /\ profile' = <<>>) ]_vars

\* an auth-state change has been delivered while a sign-out was in progress,
\* and a session is still set
C27_Witness ==
    /\ authStep = "authStateChange"
    /\ signOuts = 1
    /\ isLoggingOut
    /\ session # <<>>


-----------------------------------------------------------------------------
(* Segment ids within one assembly, and the edits and feed updates keyed by
   them *)

\* two roads without identifier that run along the same leg C-D
OverlappingRoads ==
    <<Feature(7, NoLineId, "residential"), Feature(2, NoLineId, "residential")>>

IdCollections == {Collections[c] : c \in 1..NumCollections} \cup {OverlappingRoads}

InitIds ==
    /\ features \in IdCollections
    /\ AssemblyStart

NextIds ==
    \/ GetLatestStatus
    \/ AssembleSegments
    \/ HandleSegmentStatusSelect
    \/ FeedDeliver
    \/ TimerFire
    \/ Tick

SpecIds == InitIds /\ [][NextIds]_vars

\* no two segments of the list have the same id
DistinctIds(segs) ==
    \A i, j \in 1..Len(segs) : i # j => segs[i].id # segs[j].id

\* the positions at which two segment lists differ
ChangedPositions(before, after) ==
    {i \in 1..Len(before) : after[i] # before[i]}

\* C29: the segments of one assembly have distinct ids, and a step on the
\* assembled segments (a local edit, a feed update) changes the status of at
\* most one segment and no segment's id or coordinates
C29_OneSegmentPerId ==
    [][ /\ pc' = "assembled" => DistinctIds(roadSegments')
        /\ (pc = "assembled" /\ pc' = "assembled") =>
               /\ Len(roadSegments') = Len(roadSegments)
               /\ Cardinality(ChangedPositions(roadSegments, roadSegments')) <= 1
               /\ \A i \in 1..Len(roadSegments) :
                      /\ roadSegments'[i].id = roadSegments[i].id
                      /\ roadSegments'[i].coordinates = roadSegments[i].coordinates ]_vars

====
